---- MODULE Spec2Model ----
(***************************************************************************)
(* Storage and projection engine of tasque: write lock, event log, state  *)
(* cache, snapshots, projector and the duplicate/merge service checks.    *)
(*                                                                         *)
(* The specifications of this module:                                     *)
(*   LockSpec   processes running with_write_lock around an append        *)
(*   DepSpec    the projector folding dep.added / dep.removed events      *)
(*   LinkSpec   the projector folding link.added / link.removed events    *)
(*   DupSpec    the service operations that write duplicate_of            *)
(*   StoreSpec  service operations on the files of .tasque/, with I/O     *)
(*              failures and crashes                                      *)
(* and, each introduced in its own section below: LifeSpec, RefSpec,      *)
(* ChildSpec, MergeSpec, FairLockSpec, DetSpec, IdSpec, ReadySpec,         *)
(* ReadSpec, RepairSpec, BranchSpec, ClaimSpec, ReaderSpec, SnapSpec.      *)
(***************************************************************************)
EXTENDS Integers, Naturals, Sequences, FiniteSets, TLC

(***************************************************************************)
(* Bounds                                                                  *)
(***************************************************************************)
NPids == 4
MaxCrashes == 1
MaxElapse == 1
MaxDepEvents == 3
MaxLinkEvents == 3
MaxDupEvents == 5
MaxOps == 3
MaxIoFailures == 1
MaxStoreCrashes == 1
MaxLifeEvents == 4
MaxRefEvents == 3
MaxMergeLen == 2
MaxDetEvents == 3
MaxGenerated == 3
MaxReadLines == 2
MaxBranchLen == 2
MaxLoads == 2
MaxCommits == 12
MaxTicks == 1
MaxUnparsable == 4

Pids == 1..NPids

(***************************************************************************)
(* Program constants                                                       *)
(***************************************************************************)
STALE_LOCK_MS == 30000

VARIABLES
  \* ---- write lock (store/lock.rs) ----
  pc,          \* position of each process inside with_write_lock
  lockFile,    \* inode at .tasque/.lock: NoFile or the pid whose create_new made it
  lockWritten, \* inodes whose payload has been written (else the file is empty)
  staleFile,   \* inode at this process's .lock.stale-<hex> name, or NoFile
  raw,         \* content this process read from .lock in try_cleanup_stale_lock
  createdAt,   \* created_at of the payload each process built
  clock,       \* Utc::now() in ms
  crashes,     \* processes killed so far
  lockLog,     \* events.jsonl as written by the locked sections: <<pid, index>>
  nWritten,    \* events of its batch a process's write_all has written so far
  taskLog,     \* events.jsonl as read and appended by `create --parent` callbacks
  planned,     \* the task.created event each such callback made, else <<>>
  mergeRun,    \* the merge driver: its three files, position, result and exit code
  folds,       \* two independent folds of one event sequence, and what each wrote
  generated,   \* the event ids one writer has generated, in generation order
  reader,      \* a load() that takes no lock: its position and what it has read
  \* ---- projection (domain/projector.rs) ----
  st,          \* the projected State
  lastEvent,   \* the event (or service call) handled last
  lastResult,  \* "ok" or the error code it ended with
  \* ---- files of .tasque/ (store/events.rs, store/state.rs, store/snapshots.rs) ----
  eventsFile,  \* events.jsonl as a sequence of tokens
  stateFile,   \* state.json: None or Some(serialized State)
  snapshotsDir,\* the files of snapshots/
  specFiles,   \* attached spec files, by task id
  opPc,        \* position of the running service operation
  op,          \* its events, next_state, event_count and write progress
  batches,     \* every batch handed to append_events so far
  tailBase,    \* what load() returned before the last line of the log was begun
  used         \* operations begun, I/O failures and crashes so far

\* The runs that touch neither the lock nor the files of .tasque/.
runVars == <<folds, generated, reader>>

lockVars == <<pc, lockFile, lockWritten, staleFile, raw, createdAt, clock,
              crashes, lockLog, nWritten, taskLog, planned, mergeRun, runVars>>
projVars == <<st, lastEvent, lastResult>>
storeVars == <<eventsFile, stateFile, snapshotsDir, specFiles, opPc, op, batches,
               tailBase, used>>

vars == <<lockVars, projVars, storeVars>>

\* What the steps of with_write_lock leave alone.
offLock == <<projVars, storeVars, taskLog, planned, mergeRun, runVars>>
\* What a step of the projector fold leaves alone.
offProj == <<lockVars, storeVars>>

(***************************************************************************)
(* Write lock: store/lock.rs                                               *)
(***************************************************************************)
NoFile == 0
NotRead == -1
EmptyContent == 0
BatchLen == 2

\* Content of a lock inode: the creator's payload once written, "" before.
LockContent(inode) == IF inode \in lockWritten THEN inode ELSE EmptyContent

\* parse_lock_payload: the empty file does not parse.
parse_lock_payload(content) == content # EmptyContent

Exited(p) == pc[p] \in {"done", "failed", "crashed"}

\* is_process_dead: never our own pid; otherwise absent from the process table.
is_process_dead(self, pid) == pid # self /\ (pc[pid] = "init" \/ Exited(pid))

\* Age test of try_cleanup_stale_lock.
IsStaleAge(created) == ~(clock - created < STALE_LOCK_MS)

\* A process is inside the callback of with_write_lock.
InCritical(p) == pc[p] \in {"held", "append", "create_append"}

\* No projection is loaded.
ProjIdle ==
  /\ st = 0
  /\ lastEvent = 0
  /\ lastResult = 0

\* No fold of a recorded sequence and no id generator runs.
RunIdle ==
  /\ folds = <<>>
  /\ generated = <<>>
  /\ reader = <<>>

\* .tasque/ holds no file and no operation runs.
StoreIdle ==
  /\ eventsFile = <<>>
  /\ stateFile = <<>>
  /\ snapshotsDir = {}
  /\ specFiles = <<>>
  /\ opPc = "idle"
  /\ op = <<>>
  /\ batches = <<>>
  /\ tailBase = <<>>
  /\ used = <<>>

\* No process has entered with_write_lock; .lock does not exist.
LockFree ==
  /\ pc = [p \in Pids |-> "init"]
  /\ lockFile = NoFile
  /\ lockWritten = {}
  /\ staleFile = [p \in Pids |-> NoFile]
  /\ raw = [p \in Pids |-> NotRead]
  /\ createdAt = [p \in Pids |-> 0]
  /\ clock = 0
  /\ crashes = 0
  /\ lockLog = <<>>
  /\ nWritten = [p \in Pids |-> 0]

\* Nor does a create callback or the merge driver run.
LockIdle ==
  /\ LockFree
  /\ taskLog = <<>>
  /\ planned = [p \in Pids |-> <<>>]
  /\ mergeRun = <<>>
  /\ RunIdle

\* with_write_lock is entered: acquire_write_lock starts its loop.
StartAcquire(p) ==
  /\ pc[p] = "init"
  /\ pc' = [pc EXCEPT ![p] = "create"]
  /\ UNCHANGED <<offLock, lockFile, lockWritten, staleFile, raw, createdAt, clock,
                 crashes, lockLog, nWritten>>

\* OpenOptions::create_new(true).open(lock_file) succeeds: the file exists, empty.
CreateLockOk(p) ==
  /\ pc[p] = "create"
  /\ lockFile = NoFile
  /\ lockFile' = p
  /\ createdAt' = [createdAt EXCEPT ![p] = clock]
  /\ pc' = [pc EXCEPT ![p] = "write"]
  /\ UNCHANGED <<offLock, lockWritten, staleFile, raw, clock, crashes, lockLog, nWritten>>

\* create_new fails with AlreadyExists: go to try_cleanup_stale_lock.
CreateLockExists(p) ==
  /\ pc[p] = "create"
  /\ lockFile # NoFile
  /\ pc' = [pc EXCEPT ![p] = "cleanup_read"]
  /\ UNCHANGED <<offLock, lockFile, lockWritten, staleFile, raw, createdAt, clock,
                 crashes, lockLog, nWritten>>

\* handle.write_all(payload) + sync_all through the open handle, then Ok(payload).
WriteLockPayload(p) ==
  /\ pc[p] = "write"
  /\ lockWritten' = lockWritten \cup {p}
  /\ pc' = [pc EXCEPT ![p] = "held"]
  /\ UNCHANGED <<offLock, lockFile, staleFile, raw, createdAt, clock, crashes, lockLog,
                 nWritten>>

\* try_cleanup_stale_lock: read_to_string(lock_file) and parse.
CleanupRead(p) ==
  /\ pc[p] = "cleanup_read"
  /\ IF lockFile = NoFile
       THEN /\ pc' = [pc EXCEPT ![p] = "create"]          \* NotFound: return true
            /\ UNCHANGED raw
       ELSE /\ raw' = [raw EXCEPT ![p] =
                        IF parse_lock_payload(LockContent(lockFile))
                          THEN LockContent(lockFile) ELSE NotRead]
            /\ pc' = [pc EXCEPT ![p] =
                        IF parse_lock_payload(LockContent(lockFile))
                          THEN "cleanup_check" ELSE "deadline"]
  /\ UNCHANGED <<offLock, lockFile, lockWritten, staleFile, createdAt, clock, crashes,
                 lockLog, nWritten>>

\* try_cleanup_stale_lock: age >= STALE_LOCK_MS and pid dead, else return false.
CleanupCheck(p) ==
  /\ pc[p] = "cleanup_check"
  /\ IF IsStaleAge(createdAt[raw[p]]) /\ is_process_dead(p, raw[p])
       THEN /\ pc' = [pc EXCEPT ![p] = "cleanup_rename"]
            /\ UNCHANGED raw
       ELSE /\ pc' = [pc EXCEPT ![p] = "deadline"]
            /\ raw' = [raw EXCEPT ![p] = NotRead]
  /\ UNCHANGED <<offLock, lockFile, lockWritten, staleFile, createdAt, clock,
                 crashes, lockLog, nWritten>>

\* try_cleanup_stale_lock: rename(lock_file, temp_file).
CleanupRename(p) ==
  /\ pc[p] = "cleanup_rename"
  /\ IF lockFile = NoFile
       THEN /\ pc' = [pc EXCEPT ![p] = "create"]          \* NotFound: return true
            /\ raw' = [raw EXCEPT ![p] = NotRead]
            /\ UNCHANGED <<lockFile, staleFile>>
       ELSE /\ staleFile' = [staleFile EXCEPT ![p] = lockFile]
            /\ lockFile' = NoFile
            /\ pc' = [pc EXCEPT ![p] = "cleanup_compare"]
            /\ UNCHANGED raw
  /\ UNCHANGED <<offLock, lockWritten, createdAt, clock, crashes, lockLog, nWritten>>

\* try_cleanup_stale_lock: read temp_file and compare with what was read before.
CleanupCompare(p) ==
  /\ pc[p] = "cleanup_compare"
  /\ pc' = [pc EXCEPT ![p] =
              IF LockContent(staleFile[p]) # raw[p]
                THEN "cleanup_restore" ELSE "cleanup_remove"]
  /\ raw' = [raw EXCEPT ![p] = NotRead]
  /\ UNCHANGED <<offLock, lockFile, lockWritten, staleFile, createdAt, clock,
                 crashes, lockLog, nWritten>>

\* try_cleanup_stale_lock: rename(temp_file, lock_file) replaces whatever is there.
CleanupRestore(p) ==
  /\ pc[p] = "cleanup_restore"
  /\ lockFile' = staleFile[p]
  /\ staleFile' = [staleFile EXCEPT ![p] = NoFile]
  /\ pc' = [pc EXCEPT ![p] = "deadline"]
  /\ UNCHANGED <<offLock, lockWritten, raw, createdAt, clock, crashes, lockLog, nWritten>>

\* try_cleanup_stale_lock: remove_file(temp_file), return true.
CleanupRemove(p) ==
  /\ pc[p] = "cleanup_remove"
  /\ staleFile' = [staleFile EXCEPT ![p] = NoFile]
  /\ pc' = [pc EXCEPT ![p] = "create"]
  /\ UNCHANGED <<offLock, lockFile, lockWritten, raw, createdAt, clock, crashes, lockLog,
                 nWritten>>

\* The deadline check that never finds the deadline passed.
LockTimeoutNever(p) ==
  /\ pc[p] = "deadline"
  /\ pc' = [pc EXCEPT ![p] = "create"]
  /\ UNCHANGED <<offLock, lockFile, lockWritten, staleFile, raw, createdAt, clock,
                 crashes, lockLog, nWritten>>

\* acquire_write_lock: deadline passed, LOCK_TIMEOUT.
LockTimeout(p) ==
  /\ pc[p] = "deadline"
  /\ pc' = [pc EXCEPT ![p] = "failed"]
  /\ UNCHANGED <<offLock, lockFile, lockWritten, staleFile, raw, createdAt, clock,
                 crashes, lockLog, nWritten>>

\* acquire_write_lock: deadline not reached, sleep(jitter) and loop.
SleepRetry(p) ==
  /\ pc[p] = "deadline"
  /\ pc' = [pc EXCEPT ![p] = "create"]
  /\ UNCHANGED <<offLock, lockFile, lockWritten, staleFile, raw, createdAt, clock,
                 crashes, lockLog, nWritten>>

\* The callback starts append_events on its batch.
BeginAppend(p) ==
  /\ pc[p] = "held"
  /\ pc' = [pc EXCEPT ![p] = "append"]
  /\ UNCHANGED <<offLock, lockFile, lockWritten, staleFile, raw, createdAt, clock,
                 crashes, lockLog, nWritten>>

\* append_events: write_all issues write() calls on the O_APPEND handle until
\* the whole batch is out; each call appends a non-empty run of the rest.
AppendWrite(p) ==
  /\ pc[p] = "append"
  /\ \E n \in 1..(BatchLen - nWritten[p]) :
       /\ lockLog' = lockLog \o [i \in 1..n |-> <<p, nWritten[p] + i>>]
       /\ nWritten' = [nWritten EXCEPT ![p] = nWritten[p] + n]
       /\ pc' = [pc EXCEPT ![p] =
                   IF nWritten[p] + n = BatchLen THEN "release_read" ELSE "append"]
  /\ UNCHANGED <<offLock, lockFile, lockWritten, staleFile, raw, createdAt, clock, crashes>>

\* release_write_lock: read the lockfile; only our own payload goes on to unlink.
ReleaseRead(p) ==
  /\ pc[p] = "release_read"
  /\ pc' = [pc EXCEPT ![p] =
              IF lockFile # NoFile /\ LockContent(lockFile) = p
                THEN "release_remove" ELSE "done"]
  /\ UNCHANGED <<offLock, lockFile, lockWritten, staleFile, raw, createdAt, clock,
                 crashes, lockLog, nWritten>>

\* release_write_lock: remove_file(lock_file); NotFound is Ok.
ReleaseRemove(p) ==
  /\ pc[p] = "release_remove"
  /\ lockFile' = NoFile
  /\ pc' = [pc EXCEPT ![p] = "done"]
  /\ UNCHANGED <<offLock, lockWritten, staleFile, raw, createdAt, clock, crashes, lockLog,
                 nWritten>>

\* The process is killed while its lockfile exists: inside the callback, or
\* in acquire_write_lock between create_new and write_all.
Crash(p) ==
  /\ InCritical(p) \/ pc[p] = "write"
  /\ crashes < MaxCrashes
  /\ crashes' = crashes + 1
  /\ pc' = [pc EXCEPT ![p] = "crashed"]
  /\ UNCHANGED <<offLock, lockFile, lockWritten, staleFile, raw, createdAt, clock, lockLog,
                 nWritten>>

\* STALE_LOCK_MS of wall-clock time pass.
Elapse ==
  /\ clock < MaxElapse * STALE_LOCK_MS
  /\ clock' = clock + STALE_LOCK_MS
  /\ UNCHANGED <<offLock, pc, lockFile, lockWritten, staleFile, raw, createdAt, crashes,
                 lockLog, nWritten>>

LockInit == LockIdle /\ ProjIdle /\ StoreIdle

LockNext ==
  \/ \E p \in Pids : StartAcquire(p)
  \/ \E p \in Pids : CreateLockOk(p)
  \/ \E p \in Pids : CreateLockExists(p)
  \/ \E p \in Pids : WriteLockPayload(p)
  \/ \E p \in Pids : CleanupRead(p)
  \/ \E p \in Pids : CleanupCheck(p)
  \/ \E p \in Pids : CleanupRename(p)
  \/ \E p \in Pids : CleanupCompare(p)
  \/ \E p \in Pids : CleanupRestore(p)
  \/ \E p \in Pids : CleanupRemove(p)
  \/ \E p \in Pids : LockTimeout(p)
  \/ \E p \in Pids : SleepRetry(p)
  \/ \E p \in Pids : BeginAppend(p)
  \/ \E p \in Pids : AppendWrite(p)
  \/ \E p \in Pids : ReleaseRead(p)
  \/ \E p \in Pids : ReleaseRemove(p)
  \/ \E p \in Pids : Crash(p)
  \/ Elapse

LockSpec == LockInit /\ [][LockNext]_vars

\* C1: mutual exclusion of the write lock. At no instant have two processes
\* both returned from acquire_write_lock without having called release yet.
LockExclusion ==
  \A p, q \in Pids : (InCritical(p) /\ InCritical(q)) => p = q

\* Positions of the events of process p in the log.
LogPositions(p) == {i \in 1..Len(lockLog) : lockLog[i][1] = p}

\* C2: the events of every successful operation are all in the log, contiguous
\* and in the order the operation emitted them.
LogContiguousPerWriter ==
  \A p \in Pids :
    pc[p] = "done" =>
      \E i \in 1..Len(lockLog) :
        /\ LogPositions(p) = i..(i + BatchLen - 1)
        /\ \A k \in 1..BatchLen : lockLog[i + k - 1] = <<p, k>>

\* C34 (the lock is released on return): whenever with_write_lock has
\* returned, the lockfile that caller created is no longer at .tasque/.lock,
\* in every interleaving with the acquisition and stale-reclamation steps of
\* other processes.
OwnLockGoneOnReturn ==
  \A p \in Pids : pc[p] = "done" => lockFile # p

\* C37 (release removes only its own lockfile): the remove_file of
\* release_write_lock never removes a lockfile written by another process,
\* whatever other processes did since the release read the file.
ReleaseRemovesOwnOnly ==
  [][\A p \in Pids : ReleaseRemove(p) => lockFile \in {NoFile, p}]_vars

(***************************************************************************)
(* Projector: domain/projector*.rs, domain/validate.rs, domain/deps.rs     *)
(*                                                                         *)
(* A task id is the sequence of its dot-separated segments: <<r>> is the   *)
(* root tsq-r, <<r, n>> its n-th child.  Option<T> is None or Some(x).     *)
(***************************************************************************)
None == <<>>
Some(x) == <<x>>
EmptyId == <<>>
EmptyMap == [x \in {} |-> 0]

MapPut(m, k, v) == [x \in (DOMAIN m) \cup {k} |-> IF x = k THEN v ELSE m[x]]
MapGet(m, k, d) == IF k \in DOMAIN m THEN m[k] ELSE d

\* payload.get(key): JSON null and an absent key both give None.
PGet(payload, key) == IF key \in DOMAIN payload THEN Some(payload[key]) ELSE None

Statuses == {"open", "in_progress", "blocked", "closed", "canceled", "deferred"}
DepTypes == {"blocks", "starts_after"}
RelTypes == {"relates_to", "replies_to", "duplicates", "supersedes"}
Kinds == {"task", "feature", "epic"}
PlanningStates == {"needs_planning", "planned"}

Ok(state) == [ok |-> TRUE, state |-> state]
Err(code) == [ok |-> FALSE, code |-> code]

create_empty_state ==
  [tasks |-> EmptyMap, deps |-> EmptyMap, links |-> EmptyMap,
   child_counters |-> EmptyMap, created_order |-> <<>>, applied_events |-> 0]

\* as_task_status, as_task_kind, as_priority, as_planning_state, as_relation_type:
\* Some(v) when the key holds a value of the enum, None otherwise.
AsEnum(payload, key, values) ==
  IF key \in DOMAIN payload /\ payload[key] \in values THEN Some(payload[key]) ELSE None

UnwrapOr(opt, d) == IF opt = None THEN d ELSE opt[1]

InSeq(x, seq) == \E i \in 1..Len(seq) : seq[i] = x

RECURSIVE normalize_dependency_edges(_)
normalize_dependency_edges(edges) ==
  IF edges = <<>> THEN <<>>
  ELSE LET init == normalize_dependency_edges(SubSeq(edges, 1, Len(edges) - 1))
           edge == edges[Len(edges)]
       IN IF edge.blocker = EmptyId \/ InSeq(edge, init) THEN init
          ELSE Append(init, edge)

DepsOf(state, task_id) == normalize_dependency_edges(MapGet(state.deps, task_id, <<>>))

RECURSIVE BlockersOnly(_)
BlockersOnly(edges) ==
  IF edges = <<>> THEN <<>>
  ELSE IF edges[1].dep_type = "blocks"
         THEN <<edges[1].blocker>> \o BlockersOnly(Tail(edges))
         ELSE BlockersOnly(Tail(edges))

blocking_dep_ids(state, task_id) == BlockersOnly(DepsOf(state, task_id))

RECURSIVE FilterUnvisited(_, _)
FilterUnvisited(ids, visited) ==
  IF ids = <<>> THEN <<>>
  ELSE IF ids[1] \in visited THEN FilterUnvisited(Tail(ids), visited)
       ELSE <<ids[1]>> \o FilterUnvisited(Tail(ids), visited)

\* The stack/visited loop of assert_no_dependency_cycle; TRUE when child is found.
RECURSIVE CycleSearch(_, _, _, _)
CycleSearch(state, child, stack, visited) ==
  IF stack = <<>> THEN FALSE
  ELSE LET current == stack[Len(stack)]
           rest == SubSeq(stack, 1, Len(stack) - 1)
       IN IF current \in visited THEN CycleSearch(state, child, rest, visited)
          ELSE IF current = child THEN TRUE
          ELSE CycleSearch(state, child,
                           rest \o FilterUnvisited(blocking_dep_ids(state, current),
                                                   visited \cup {current}),
                           visited \cup {current})

\* A cycle check that looks at the new edge alone and never walks the graph.
DependencyCycleFoundSelfOnly(state, child, blocker) ==
  child = blocker
\* TRUE when assert_no_dependency_cycle returns Err(DEPENDENCY_CYCLE).
DependencyCycleFound(state, child, blocker) ==
  IF child = blocker THEN TRUE ELSE CycleSearch(state, child, <<blocker>>, {})

DepTypeOf(payload) ==
  UnwrapOr(AsEnum(payload, "dep_type", DepTypes), "blocks")

\* dep.added that runs the cycle check for every dep_type.
apply_dep_addedCheckAllTypes(state, event) ==
  LET blocker == PGet(event.payload, "blocker") IN
  IF blocker = None \/ blocker = Some(EmptyId) THEN Err("INVALID_EVENT")
  ELSE IF event.task_id \notin DOMAIN state.tasks THEN Err("TASK_NOT_FOUND")
  ELSE IF blocker[1] \notin DOMAIN state.tasks THEN Err("TASK_NOT_FOUND")
  ELSE IF DependencyCycleFound(state, event.task_id, blocker[1])
    THEN Err("DEPENDENCY_CYCLE")
  ELSE LET deps == DepsOf(state, event.task_id)
           edge == [blocker |-> blocker[1], dep_type |-> DepTypeOf(event.payload)]
       IN IF InSeq(edge, deps) THEN Ok(state)
          ELSE Ok([state EXCEPT !.deps = MapPut(@, event.task_id, Append(deps, edge))])

\* dep.added that does not look the blocker up in tasks.
apply_dep_addedAnyBlocker(state, event) ==
  LET blocker == PGet(event.payload, "blocker") IN
  IF blocker = None \/ blocker = Some(EmptyId) THEN Err("INVALID_EVENT")
  ELSE IF event.task_id \notin DOMAIN state.tasks THEN Err("TASK_NOT_FOUND")
  ELSE IF DepTypeOf(event.payload) = "blocks"
          /\ DependencyCycleFound(state, event.task_id, blocker[1])
    THEN Err("DEPENDENCY_CYCLE")
  ELSE LET deps == DepsOf(state, event.task_id)
           edge == [blocker |-> blocker[1], dep_type |-> DepTypeOf(event.payload)]
       IN IF InSeq(edge, deps) THEN Ok(state)
          ELSE Ok([state EXCEPT !.deps = MapPut(@, event.task_id, Append(deps, edge))])
apply_dep_added(state, event) ==
  LET blocker == PGet(event.payload, "blocker") IN
  IF blocker = None \/ blocker = Some(EmptyId) THEN Err("INVALID_EVENT")
  ELSE IF event.task_id \notin DOMAIN state.tasks THEN Err("TASK_NOT_FOUND")
  ELSE IF blocker[1] \notin DOMAIN state.tasks THEN Err("TASK_NOT_FOUND")
  ELSE IF DepTypeOf(event.payload) = "blocks"
          /\ DependencyCycleFound(state, event.task_id, blocker[1])
    THEN Err("DEPENDENCY_CYCLE")
  ELSE LET deps == DepsOf(state, event.task_id)
           edge == [blocker |-> blocker[1], dep_type |-> DepTypeOf(event.payload)]
       IN IF InSeq(edge, deps) THEN Ok(state)
          ELSE Ok([state EXCEPT !.deps = MapPut(@, event.task_id, Append(deps, edge))])

RECURSIVE RemoveEdge(_, _)
RemoveEdge(edges, edge) ==
  IF edges = <<>> THEN <<>>
  ELSE IF edges[1] = edge THEN RemoveEdge(Tail(edges), edge)
       ELSE <<edges[1]>> \o RemoveEdge(Tail(edges), edge)

apply_dep_removed(state, event) ==
  LET blocker == PGet(event.payload, "blocker") IN
  IF blocker = None \/ blocker = Some(EmptyId) THEN Err("INVALID_EVENT")
  ELSE LET edge == [blocker |-> blocker[1], dep_type |-> DepTypeOf(event.payload)]
       IN Ok([state EXCEPT !.deps =
                MapPut(@, event.task_id, RemoveEdge(DepsOf(state, event.task_id), edge))])

upsert_directed_link(links, src, dst, rel_type) ==
  LET entry == MapGet(links, src, EmptyMap)
      targets == MapGet(entry, rel_type, <<>>)
  IN MapPut(links, src,
            MapPut(entry, rel_type,
                   IF InSeq(dst, targets) THEN targets ELSE Append(targets, dst)))

RECURSIVE RemoveId(_, _)
RemoveId(ids, id) ==
  IF ids = <<>> THEN <<>>
  ELSE IF ids[1] = id THEN RemoveId(Tail(ids), id)
       ELSE <<ids[1]>> \o RemoveId(Tail(ids), id)

remove_directed_link(links, src, dst, rel_type) ==
  IF src \notin DOMAIN links THEN links
  ELSE IF rel_type \notin DOMAIN links[src] THEN links
  ELSE MapPut(links, src, MapPut(links[src], rel_type, RemoveId(links[src][rel_type], dst)))

apply_link_added(state, event) ==
  LET rel_type == AsEnum(event.payload, "type", RelTypes)
      target == PGet(event.payload, "target")
  IN IF rel_type = None \/ target = None THEN Err("INVALID_EVENT")
     ELSE IF target = Some(EmptyId) THEN Err("INVALID_EVENT")
     ELSE IF target[1] = event.task_id THEN Err("RELATION_SELF_EDGE")
     ELSE IF event.task_id \notin DOMAIN state.tasks THEN Err("TASK_NOT_FOUND")
     ELSE IF target[1] \notin DOMAIN state.tasks THEN Err("TASK_NOT_FOUND")
     ELSE LET once == upsert_directed_link(state.links, event.task_id, target[1], rel_type[1])
          IN Ok([state EXCEPT !.links =
                   IF rel_type[1] = "relates_to"
                     THEN upsert_directed_link(once, target[1], event.task_id, rel_type[1])
                     ELSE once])

\* A removal that drops the edge it names and leaves the mirrored one in place.
apply_link_removedOneWay(state, event) ==
  LET rel_type == AsEnum(event.payload, "type", RelTypes)
      target == PGet(event.payload, "target")
  IN IF rel_type = None \/ target = None THEN Err("INVALID_EVENT")
     ELSE IF target = Some(EmptyId) THEN Err("INVALID_EVENT")
     ELSE Ok([state EXCEPT !.links =
                remove_directed_link(state.links, event.task_id, target[1], rel_type[1])])
apply_link_removed(state, event) ==
  LET rel_type == AsEnum(event.payload, "type", RelTypes)
      target == PGet(event.payload, "target")
  IN IF rel_type = None \/ target = None THEN Err("INVALID_EVENT")
     ELSE IF target = Some(EmptyId) THEN Err("INVALID_EVENT")
     ELSE LET once == remove_directed_link(state.links, event.task_id, target[1], rel_type[1])
          IN Ok([state EXCEPT !.links =
                   IF rel_type[1] = "relates_to"
                     THEN remove_directed_link(once, target[1], event.task_id, rel_type[1])
                     ELSE once])

require_task(state, task_id) == task_id \in DOMAIN state.tasks

\* set_child_counter: child_id must be parent_id, a dot and one numeric segment.
set_child_counter(state, parent_id, child_id) ==
  IF ~(/\ Len(child_id) = Len(parent_id) + 1
       /\ SubSeq(child_id, 1, Len(parent_id)) = parent_id)
    THEN state
  ELSE LET counter == child_id[Len(child_id)]
           current == MapGet(state.child_counters, parent_id, 0)
       IN IF counter > current
            THEN [state EXCEPT !.child_counters = MapPut(@, parent_id, counter)]
            ELSE state

set_task_closed_state(task, ts) ==
  [task EXCEPT !.status = "closed", !.updated_at = ts, !.closed_at = Some(ts)]

apply_task_created(state, event) ==
  LET payload == event.payload
      title == PGet(payload, "title")
      status == UnwrapOr(AsEnum(payload, "status", Statuses), "open")
      parent_id == PGet(payload, "parent_id")
      discovered_from == PGet(payload, "discovered_from")
      task == [id |-> event.task_id,
               kind |-> UnwrapOr(AsEnum(payload, "kind", Kinds), "task"),
               title |-> UnwrapOr(title, ""),
               description |-> PGet(payload, "description"),
               notes |-> <<>>,
               spec_path |-> None,
               spec_fingerprint |-> None,
               spec_attached_at |-> None,
               spec_attached_by |-> None,
               status |-> status,
               priority |-> UnwrapOr(AsEnum(payload, "priority", 0..3), 1),
               assignee |-> PGet(payload, "assignee"),
               external_ref |-> PGet(payload, "external_ref"),
               discovered_from |-> discovered_from,
               parent_id |-> parent_id,
               superseded_by |-> PGet(payload, "superseded_by"),
               duplicate_of |-> PGet(payload, "duplicate_of"),
               planning_state |-> Some(UnwrapOr(AsEnum(payload, "planning_state",
                                                       PlanningStates), "needs_planning")),
               replies_to |-> PGet(payload, "replies_to"),
               labels |-> UnwrapOr(PGet(payload, "labels"), <<>>),
               created_at |-> event.ts,
               updated_at |-> event.ts,
               closed_at |-> IF status = "closed" THEN Some(event.ts) ELSE None]
      inserted == [state EXCEPT !.tasks = MapPut(@, event.task_id, task),
                                !.created_order = Append(@, event.task_id)]
  IN IF event.task_id \in DOMAIN state.tasks THEN Err("TASK_EXISTS")
     ELSE IF title = None \/ title = Some("") THEN Err("INVALID_EVENT")
     ELSE IF discovered_from # None /\ discovered_from[1] = event.task_id
       THEN Err("INVALID_EVENT")
     ELSE IF discovered_from # None /\ ~require_task(state, discovered_from[1])
       THEN Err("TASK_NOT_FOUND")
     ELSE IF parent_id # None
       THEN Ok(set_child_counter(inserted, parent_id[1], event.task_id))
     ELSE Ok(inserted)

\* Overwrite a field when the payload carries it (the `if let Some(..)` updates).
Patch(old, opt) == IF opt = None THEN old ELSE opt[1]
PatchSome(old, opt) == IF opt = None THEN old ELSE opt

apply_task_updated(state, event) ==
  LET payload == event.payload
      title == PGet(payload, "title")
      duplicate_of == PGet(payload, "duplicate_of")
      description == PGet(payload, "description")
      clear_description == PGet(payload, "clear_description") = Some(TRUE)
      external_ref == PGet(payload, "external_ref")
      clear_external_ref == PGet(payload, "clear_external_ref") = Some(TRUE)
      discovered_from == PGet(payload, "discovered_from")
      clear_discovered_from == PGet(payload, "clear_discovered_from") = Some(TRUE)
  IN IF ~require_task(state, event.task_id) THEN Err("TASK_NOT_FOUND")
     ELSE IF title = Some("") THEN Err("INVALID_EVENT")
     ELSE IF duplicate_of = Some(event.task_id) THEN Err("INVALID_EVENT")
     ELSE IF description # None /\ clear_description THEN Err("INVALID_EVENT")
     ELSE IF external_ref # None /\ clear_external_ref THEN Err("INVALID_EVENT")
     ELSE IF discovered_from # None /\ clear_discovered_from THEN Err("INVALID_EVENT")
     ELSE IF discovered_from = Some(event.task_id) THEN Err("INVALID_EVENT")
     ELSE IF discovered_from # None /\ ~require_task(state, discovered_from[1])
       THEN Err("TASK_NOT_FOUND")
     ELSE LET current == state.tasks[event.task_id]
              next ==
                [current EXCEPT
                   !.updated_at = event.ts,
                   !.title = Patch(@, title),
                   !.kind = Patch(@, AsEnum(payload, "kind", Kinds)),
                   !.priority = Patch(@, AsEnum(payload, "priority", 0..3)),
                   !.assignee = PatchSome(@, PGet(payload, "assignee")),
                   !.labels = Patch(@, PGet(payload, "labels")),
                   !.duplicate_of = PatchSome(@, duplicate_of),
                   !.description = IF clear_description THEN None
                                   ELSE PatchSome(@, description),
                   !.external_ref = IF clear_external_ref THEN None
                                    ELSE PatchSome(@, external_ref),
                   !.planning_state =
                      PatchSome(@, AsEnum(payload, "planning_state", PlanningStates)),
                   !.discovered_from = IF clear_discovered_from THEN None
                                       ELSE PatchSome(@, discovered_from)]
          IN Ok([state EXCEPT !.tasks = MapPut(@, event.task_id, next)])

\* task.status_set that carries the closing time over a later status.
apply_task_status_setKeepClosedAt(state, event) ==
  LET status == AsEnum(event.payload, "status", Statuses) IN
  IF ~require_task(state, event.task_id) THEN Err("TASK_NOT_FOUND")
  ELSE IF status = None THEN Err("INVALID_EVENT")
  ELSE LET current == state.tasks[event.task_id] IN
       IF current.status \in {"closed", "canceled"} /\ status[1] = "in_progress"
         THEN Err("INVALID_TRANSITION")
       ELSE Ok([state EXCEPT !.tasks = MapPut(@, event.task_id,
                  [current EXCEPT
                     !.status = status[1],
                     !.updated_at = event.ts,
                     !.closed_at = IF status[1] = "closed" THEN Some(event.ts)
                                   ELSE @])])
apply_task_status_set(state, event) ==
  LET status == AsEnum(event.payload, "status", Statuses) IN
  IF ~require_task(state, event.task_id) THEN Err("TASK_NOT_FOUND")
  ELSE IF status = None THEN Err("INVALID_EVENT")
  ELSE LET current == state.tasks[event.task_id] IN
       IF current.status \in {"closed", "canceled"} /\ status[1] = "in_progress"
         THEN Err("INVALID_TRANSITION")
       ELSE Ok([state EXCEPT !.tasks = MapPut(@, event.task_id,
                  [current EXCEPT
                     !.status = status[1],
                     !.updated_at = event.ts,
                     !.closed_at = IF status[1] = "closed" THEN Some(event.ts)
                                   ELSE None])])

\* apply_task_claimed without the check of the current status.
apply_task_claimed_any_status(state, event) ==
  IF ~require_task(state, event.task_id) THEN Err("TASK_NOT_FOUND")
  ELSE LET current == state.tasks[event.task_id] IN
       Ok([state EXCEPT !.tasks = MapPut(@, event.task_id,
             [current EXCEPT
                !.assignee = Some(UnwrapOr(PGet(event.payload, "assignee"),
                                           event.actor)),
                !.status = IF current.status = "open" THEN "in_progress"
                           ELSE current.status,
                !.updated_at = event.ts])])

apply_task_claimed(state, event) ==
  IF ~require_task(state, event.task_id) THEN Err("TASK_NOT_FOUND")
  ELSE LET current == state.tasks[event.task_id] IN
       IF current.status \in {"closed", "canceled"} THEN Err("INVALID_TRANSITION")
       ELSE Ok([state EXCEPT !.tasks = MapPut(@, event.task_id,
                  [current EXCEPT
                     !.assignee = Some(UnwrapOr(PGet(event.payload, "assignee"),
                                                event.actor)),
                     !.status = IF current.status = "open" THEN "in_progress"
                                ELSE current.status,
                     !.updated_at = event.ts])])

apply_task_noted(state, event) ==
  LET text == PGet(event.payload, "text") IN
  IF ~require_task(state, event.task_id) THEN Err("TASK_NOT_FOUND")
  ELSE IF text = None \/ text = Some("") THEN Err("INVALID_EVENT")
  ELSE LET current == state.tasks[event.task_id]
           note == [event_id |-> event.id, ts |-> event.ts,
                    actor |-> event.actor, text |-> text[1]]
       IN Ok([state EXCEPT !.tasks = MapPut(@, event.task_id,
                [current EXCEPT !.notes = Append(@, note),
                                !.updated_at = event.ts])])

apply_task_spec_attached(state, event) ==
  LET payload == event.payload
      spec_path == PGet(payload, "spec_path")
      spec_fingerprint == PGet(payload, "spec_fingerprint")
  IN IF ~require_task(state, event.task_id) THEN Err("TASK_NOT_FOUND")
     ELSE IF \/ spec_path = None \/ spec_path = Some("")
             \/ spec_fingerprint = None \/ spec_fingerprint = Some("")
       THEN Err("INVALID_EVENT")
     ELSE LET current == state.tasks[event.task_id] IN
          Ok([state EXCEPT !.tasks = MapPut(@, event.task_id,
                [current EXCEPT
                   !.spec_path = spec_path,
                   !.spec_fingerprint = spec_fingerprint,
                   !.spec_attached_at =
                      Some(UnwrapOr(PGet(payload, "spec_attached_at"), event.ts)),
                   !.spec_attached_by =
                      Some(UnwrapOr(PGet(payload, "spec_attached_by"), event.actor)),
                   !.updated_at = event.ts])])

apply_task_superseded(state, event) ==
  LET replacement == PGet(event.payload, "with") IN
  IF ~require_task(state, event.task_id) THEN Err("TASK_NOT_FOUND")
  ELSE IF replacement = None \/ replacement = Some(EmptyId) THEN Err("INVALID_EVENT")
  ELSE IF replacement[1] = event.task_id THEN Err("INVALID_EVENT")
  ELSE IF ~require_task(state, replacement[1]) THEN Err("TASK_NOT_FOUND")
  ELSE Ok([state EXCEPT !.tasks = MapPut(@, event.task_id,
             [set_task_closed_state(state.tasks[event.task_id], event.ts)
                EXCEPT !.superseded_by = replacement])])

EventTypes ==
  {"task.created", "task.updated", "task.status_set", "task.claimed", "task.noted",
   "task.spec_attached", "task.superseded", "dep.added", "dep.removed",
   "link.added", "link.removed"}

\* apply_event_mut: dispatch on the type, then count the event.
apply_event_mut(state, event) ==
  LET Counted(r) == IF r.ok THEN Ok([r.state EXCEPT !.applied_events = @ + 1]) ELSE r
  IN Counted(
          CASE event.type = "task.created" -> apply_task_created(state, event)
             [] event.type = "task.updated" -> apply_task_updated(state, event)
             [] event.type = "task.status_set" -> apply_task_status_set(state, event)
             [] event.type = "task.claimed" -> apply_task_claimed(state, event)
             [] event.type = "task.noted" -> apply_task_noted(state, event)
             [] event.type = "task.spec_attached" -> apply_task_spec_attached(state, event)
             [] event.type = "task.superseded" -> apply_task_superseded(state, event)
             [] event.type = "dep.added" -> apply_dep_added(state, event)
             [] event.type = "dep.removed" -> apply_dep_removed(state, event)
             [] event.type = "link.added" -> apply_link_added(state, event)
             [] event.type = "link.removed" -> apply_link_removed(state, event)
             [] OTHER -> Err("INVALID_EVENT_TYPE"))

\* clone_state: deps are normalized while copying.
clone_state(state) ==
  [state EXCEPT !.deps = [id \in DOMAIN state.deps |->
                            normalize_dependency_edges(state.deps[id])]]

RECURSIVE ApplyLoop(_, _)
ApplyLoop(state, events) ==
  IF events = <<>> THEN Ok(state)
  ELSE LET Rest(r) == IF r.ok THEN ApplyLoop(r.state, Tail(events)) ELSE r
       IN Rest(apply_event_mut(state, events[1]))

apply_events(base, events) ==
  IF events = <<>> THEN Ok(base) ELSE ApplyLoop(clone_state(base), events)

\* apply_event: fold one event onto a copy of the state.
apply_event(state, event) == apply_event_mut(clone_state(state), event)

(***************************************************************************)
(* Folding dep.added / dep.removed events (DepSpec)                        *)
(***************************************************************************)
TaskA == <<1>>
TaskB == <<2>>
TaskC == <<3>>
GhostId == <<9>>
TaskIds == {TaskA, TaskB, TaskC}
EventIds == TaskIds \cup {GhostId}

\* make_event: the id and the timestamp grow with the number of events made.
make_event(seqno, type, task_id, payload) ==
  [id |-> seqno, ts |-> seqno, actor |-> "agent", type |-> type,
   task_id |-> task_id, payload |-> payload]

\* The log of three `create` calls: tsq-1, tsq-2, tsq-3.
ThreeCreated ==
  <<make_event(1, "task.created", TaskA, [title |-> "a"]),
    make_event(2, "task.created", TaskB, [title |-> "b"]),
    make_event(3, "task.created", TaskC, [title |-> "c"])>>

ThreeTasks == apply_events(create_empty_state, ThreeCreated).state

ProjInit ==
  /\ LockIdle
  /\ StoreIdle
  /\ st = ThreeTasks
  /\ lastEvent = ThreeCreated[3]
  /\ lastResult = "ok"

\* One step of the fold: an accepted event replaces the state, a rejected one
\* leaves it as it was and surfaces the error code.
FoldEvent(event) ==
  LET r == apply_event(st, event) IN
  /\ st' = IF r.ok THEN r.state ELSE st
  /\ lastEvent' = event
  /\ lastResult' = IF r.ok THEN "ok" ELSE r.code
  /\ UNCHANGED offProj

DepPayloads(blocker) ==
  {[blocker |-> blocker, dep_type |-> "blocks"],
   [blocker |-> blocker, dep_type |-> "starts_after"]}

DepAdded(child, payload) ==
  /\ st.applied_events < Len(ThreeCreated) + MaxDepEvents
  /\ FoldEvent(make_event(st.applied_events + 1, "dep.added", child, payload))

DepRemoved(child, payload) ==
  /\ st.applied_events < Len(ThreeCreated) + MaxDepEvents
  /\ FoldEvent(make_event(st.applied_events + 1, "dep.removed", child, payload))

DepNext ==
  \/ \E child \in EventIds, blocker \in EventIds :
       \E payload \in DepPayloads(blocker) : DepAdded(child, payload)
  \/ \E child \in TaskIds, blocker \in TaskIds :
       \E payload \in DepPayloads(blocker) : DepRemoved(child, payload)

DepSpec == ProjInit /\ [][DepNext]_vars

\* The blocks edges (child -> blocker) stored in a state.
BlocksEdges(state) ==
  {e \in (DOMAIN state.deps) \X EventIds :
     \E i \in 1..Len(state.deps[e[1]]) :
       state.deps[e[1]][i] = [blocker |-> e[2], dep_type |-> "blocks"]}

Compose(R, S) ==
  {e \in EventIds \X EventIds : \E m \in EventIds : <<e[1], m>> \in R /\ <<m, e[2]>> \in S}

RECURSIVE TransitiveClosure(_)
TransitiveClosure(R) ==
  LET more == R \cup Compose(R, R) IN
  IF more = R THEN R ELSE TransitiveClosure(more)

HasBlocksCycle(state) ==
  \E x \in EventIds : <<x, x>> \in TransitiveClosure(BlocksEdges(state))

\* Adding child -> blocker would put child on a cycle of blocks edges.
WouldCloseCycle(state, child, blocker) ==
  child = blocker \/ <<blocker, child>> \in TransitiveClosure(BlocksEdges(state))

\* C8: after every accepted sequence of dep.added / dep.removed events the
\* blocks edges form no cycle, and in every such state a dep.added of type
\* blocks between two tasks that would close a cycle is rejected with
\* DEPENDENCY_CYCLE.
CycleFreedom ==
  /\ ~HasBlocksCycle(st)
  /\ \A child \in TaskIds, blocker \in TaskIds :
       WouldCloseCycle(st, child, blocker) =>
         \A payload \in {[blocker |-> blocker],
                          [blocker |-> blocker, dep_type |-> "blocks"]} :
           apply_event(st, make_event(st.applied_events + 1, "dep.added", child, payload))
             = Err("DEPENDENCY_CYCLE")

\* C8 witness: with tsq-1 blocked by tsq-2 and tsq-2 by tsq-3, the event that
\* would make tsq-1 block tsq-3 has just been rejected.
CycleRejected ==
  /\ lastResult = "DEPENDENCY_CYCLE"
  /\ lastEvent.type = "dep.added"
  /\ lastEvent.task_id = TaskC
  /\ lastEvent.payload.blocker = TaskA
  /\ {<<TaskA, TaskB>>, <<TaskB, TaskC>>} \subseteq BlocksEdges(st)

(***************************************************************************)
(* Folding link.added / link.removed events (LinkSpec)                     *)
(***************************************************************************)
LinkPayloads(target) ==
  {[type |-> "relates_to", target |-> target],
   [type |-> "supersedes", target |-> target]}

LinkAdded(src, payload) ==
  /\ st.applied_events < Len(ThreeCreated) + MaxLinkEvents
  /\ FoldEvent(make_event(st.applied_events + 1, "link.added", src, payload))

LinkRemoved(src, payload) ==
  /\ st.applied_events < Len(ThreeCreated) + MaxLinkEvents
  /\ FoldEvent(make_event(st.applied_events + 1, "link.removed", src, payload))

LinkNext ==
  \/ \E src \in EventIds, target \in EventIds :
       \E payload \in LinkPayloads(target) : LinkAdded(src, payload)
  \/ \E src \in EventIds, target \in EventIds :
       \E payload \in LinkPayloads(target) : LinkRemoved(src, payload)

LinkSpec == ProjInit /\ [][LinkNext]_vars

\* links[src][rel_type] as a sequence; empty when either key is missing.
LinkTargets(state, src, rel_type) ==
  MapGet(MapGet(state.links, src, EmptyMap), rel_type, <<>>)

\* C9: in every state reached by folding link.added / link.removed events,
\* a relates_to edge a -> b in links is accompanied by the edge b -> a.
LinkSymmetry ==
  \A a \in DOMAIN st.links :
    \A i \in 1..Len(LinkTargets(st, a, "relates_to")) :
      InSeq(a, LinkTargets(st, LinkTargets(st, a, "relates_to")[i], "relates_to"))

\* C9 witness: tsq-1 was related to tsq-2 and tsq-3; the link to tsq-2 has just
\* been removed and is gone from both sides while the one to tsq-3 remains.
LinkRemovedBothSides ==
  /\ lastEvent.type = "link.removed"
  /\ lastResult = "ok"
  /\ lastEvent.task_id = TaskA
  /\ lastEvent.payload = [type |-> "relates_to", target |-> TaskB]
  /\ LinkTargets(st, TaskA, "relates_to") = <<TaskC>>
  /\ LinkTargets(st, TaskC, "relates_to") = <<TaskA>>
  /\ TaskB \in DOMAIN st.links
  /\ LinkTargets(st, TaskB, "relates_to") = <<>>

(***************************************************************************)
(* Service operations that write duplicate_of (DupSpec).  The projection   *)
(* held in st stands for what load_projected_state returns to the next     *)
(* operation; the bodies below are the closures run under the write lock.  *)
(***************************************************************************)
\* must_resolve_existing with exact ids.
must_resolve_existing(state, raw_id) == raw_id \in DOMAIN state.tasks

has_duplicate_link(state, source, canonical) ==
  InSeq(canonical, LinkTargets(state, source, "duplicates"))

RECURSIVE DuplicateWalk(_, _, _, _)
DuplicateWalk(state, source, cursor, visited) ==
  IF cursor = None THEN FALSE
  ELSE IF cursor[1] = source THEN TRUE
  ELSE IF cursor[1] \in visited THEN FALSE
  ELSE DuplicateWalk(state, source,
                     IF cursor[1] \in DOMAIN state.tasks
                       THEN state.tasks[cursor[1]].duplicate_of ELSE None,
                     visited \cup {cursor[1]})

\* A check that never follows a duplicate_of pointer.
creates_duplicate_cycleNoWalk(state, source, canonical) ==
  source = canonical
creates_duplicate_cycle(state, source, canonical) ==
  DuplicateWalk(state, source, Some(canonical), {})

\* The events that mark source a duplicate of canonical and close it.
DuplicateEvents(state, source, canonical, first) ==
  LET link == IF has_duplicate_link(state, source, canonical) THEN <<>>
              ELSE <<make_event(first, "link.added", source,
                                [type |-> "duplicates", target |-> canonical])>>
      n == first + Len(link)
  IN link \o
     <<make_event(n, "task.updated", source, [duplicate_of |-> canonical]),
       make_event(n + 1, "task.status_set", source,
                  [status |-> "closed", closed_at |-> n + 1])>>

duplicate(state, source, canonical) ==
  IF ~must_resolve_existing(state, source) THEN Err("TASK_NOT_FOUND")
  ELSE IF ~must_resolve_existing(state, canonical) THEN Err("TASK_NOT_FOUND")
  ELSE IF source = canonical THEN Err("VALIDATION_ERROR")
  ELSE IF state.tasks[source].status = "canceled" THEN Err("INVALID_STATUS")
  ELSE IF state.tasks[canonical].status = "canceled" THEN Err("INVALID_STATUS")
  ELSE IF /\ state.tasks[source].duplicate_of # None
          /\ state.tasks[source].duplicate_of # Some(canonical)
    THEN Err("VALIDATION_ERROR")
  ELSE IF creates_duplicate_cycle(state, source, canonical) THEN Err("DUPLICATE_CYCLE")
  ELSE apply_events(state,
                    DuplicateEvents(state, source, canonical, state.applied_events + 1))

\* The loop over resolved_sources: closed or canceled sources and sources that
\* would close a cycle are skipped; every check reads the loaded state.
RECURSIVE MergeEvents(_, _, _, _)
MergeEvents(state, sources, target_id, events) ==
  IF sources = <<>> THEN events
  ELSE LET source_id == sources[1] IN
       IF \/ state.tasks[source_id].status \in {"closed", "canceled"}
          \/ creates_duplicate_cycle(state, source_id, target_id)
         THEN MergeEvents(state, Tail(sources), target_id, events)
         ELSE MergeEvents(state, Tail(sources), target_id,
                          events \o DuplicateEvents(state, source_id, target_id,
                                                    state.applied_events + Len(events) + 1))

merge(state, sources, into, force, dry_run) ==
  IF sources = <<>> THEN Err("VALIDATION_ERROR")
  ELSE IF ~must_resolve_existing(state, into) THEN Err("TASK_NOT_FOUND")
  ELSE IF state.tasks[into].status \in {"closed", "canceled"} /\ ~force
    THEN Err("VALIDATION_ERROR")
  ELSE IF \E i \in 1..Len(sources) : ~must_resolve_existing(state, sources[i])
    THEN Err("TASK_NOT_FOUND")
  ELSE IF \E i \in 1..Len(sources) : sources[i] = into THEN Err("VALIDATION_ERROR")
  ELSE LET events == MergeEvents(state, sources, into, <<>>) IN
       IF dry_run \/ events = <<>> THEN Ok(state)
       ELSE apply_events(state, events)

reopen(state, id) ==
  IF ~must_resolve_existing(state, id) THEN Err("TASK_NOT_FOUND")
  ELSE IF state.tasks[id].status # "closed" THEN Err("VALIDATION_ERROR")
  ELSE apply_events(state,
         <<make_event(state.applied_events + 1, "task.status_set", id,
                      [status |-> "open"])>>)

\* What the validation of an operation hands to apply_events.
Planned(events) == [ok |-> TRUE, events |-> events]

\* The events of update: task.updated when a field is patched, task.status_set
\* when a status is given.
UpdateEvents(id, title, status, first) ==
  LET patch == IF title = None THEN <<>>
               ELSE <<make_event(first, "task.updated", id, [title |-> title[1]])>>
      n == first + Len(patch)
  IN patch \o
     (IF status = None THEN <<>>
      ELSE <<make_event(n, "task.status_set", id,
                        IF status[1] = "closed"
                          THEN [status |-> status[1], closed_at |-> n]
                          ELSE [status |-> status[1]])>>)

\* update up to its call of apply_events.
update_plan(state, id, title, status, first) ==
  IF ~must_resolve_existing(state, id) THEN Err("TASK_NOT_FOUND")
  ELSE IF title = None /\ status = None THEN Err("VALIDATION_ERROR")
  ELSE IF state.tasks[id].status = "canceled" /\ status = Some("in_progress")
    THEN Err("VALIDATION_ERROR")
  ELSE Planned(UpdateEvents(id, title, status, first))

update(state, id, title, status) ==
  LET plan == update_plan(state, id, title, status, state.applied_events + 1) IN
  IF plan.ok THEN apply_events(state, plan.events) ELSE plan

\* One service call: its result replaces the projection when it succeeds.
\* lastEvent keeps the operation and the task it was aimed at.
ServiceStep(call, r) ==
  /\ st.applied_events < Len(ThreeCreated) + MaxDupEvents
  /\ st' = IF r.ok THEN r.state ELSE st
  /\ lastEvent' = call
  /\ lastResult' = IF r.ok THEN "ok" ELSE r.code
  /\ UNCHANGED offProj

Duplicate(source, canonical) ==
  ServiceStep([op |-> "duplicate", task_id |-> source],
              duplicate(st, source, canonical))

Merge(sources, into, force, dry_run) ==
  ServiceStep([op |-> "merge", task_id |-> into],
              merge(st, sources, into, force, dry_run))

Reopen(id) ==
  ServiceStep([op |-> "reopen", task_id |-> id], reopen(st, id))

Update(id, status) ==
  ServiceStep([op |-> "update", task_id |-> id], update(st, id, None, Some(status)))

MergeSources ==
  {<<a>> : a \in TaskIds} \cup {<<a, b>> : a \in TaskIds, b \in TaskIds}

MergeFlags == {<<FALSE, FALSE>>, <<TRUE, FALSE>>, <<FALSE, TRUE>>}

DupNext ==
  \/ \E source \in EventIds, canonical \in EventIds : Duplicate(source, canonical)
  \/ \E sources \in MergeSources, into \in TaskIds, flags \in MergeFlags :
       Merge(sources, into, flags[1], flags[2])
  \/ \E id \in TaskIds : Reopen(id)
  \/ \E id \in TaskIds, status \in {"open", "canceled"} : Update(id, status)

DupSpec == ProjInit /\ [][DupNext]_vars

\* The duplicate_of pointers of a state as edges task -> canonical.
DuplicateEdges(state) ==
  {e \in (DOMAIN state.tasks) \X EventIds : state.tasks[e[1]].duplicate_of = Some(e[2])}

\* C10: after every service operation, following duplicate_of pointers from a
\* task never leads back to that task.
NoDuplicateCycle ==
  \A t \in DOMAIN st.tasks : <<t, t>> \notin TransitiveClosure(DuplicateEdges(st))

\* C10 witness: tsq-1 is a duplicate of tsq-2, and a merge has just made tsq-2
\* a duplicate of tsq-3: a chain of two pointers that ends.
DuplicateChainAfterMerge ==
  /\ "op" \in DOMAIN lastEvent
  /\ lastEvent = [op |-> "merge", task_id |-> TaskC]
  /\ lastResult = "ok"
  /\ st.tasks[TaskB].updated_at = st.applied_events
  /\ st.tasks[TaskA].duplicate_of = Some(TaskB)
  /\ st.tasks[TaskB].duplicate_of = Some(TaskC)

(***************************************************************************)
(* Event log, state cache, snapshots and load: store/events.rs,            *)
(* store/state.rs, store/snapshots.rs, app/state.rs                        *)
(*                                                                         *)
(* events.jsonl is a sequence of tokens.  The JSON text of an event is     *)
(* two tokens, its first bytes and its remaining bytes, so that a write    *)
(* can stop inside a line; the newline is a token of its own.              *)
(***************************************************************************)
SnapshotEvery == 2
SNAPSHOT_RETAIN_COUNT == 5

NewLine == <<"nl">>
HeadOf(event) == <<"head", event>>
RestOf(event) == <<"rest", event>>

\* serde_json::to_string(event)
EventLine(event) == <<HeadOf(event), RestOf(event)>>

\* The lines of a batch joined by "\n".
RECURSIVE JoinLines(_)
JoinLines(events) ==
  IF events = <<>> THEN <<>>
  ELSE IF Len(events) = 1 THEN EventLine(events[1])
  ELSE EventLine(events[1]) \o <<NewLine>> \o JoinLines(Tail(events))

\* The bytes append_events hands to write_all.
AppendPayload(events) == JoinLines(events) \o <<NewLine>>

\* raw.split('\n')
RECURSIVE SplitLines(_, _)
SplitLines(tokens, current) ==
  IF tokens = <<>> THEN <<current>>
  ELSE IF tokens[1] = NewLine
    THEN <<current>> \o SplitLines(Tail(tokens), <<>>)
  ELSE SplitLines(Tail(tokens), Append(current, tokens[1]))

\* The lines read_events iterates over: the last one is dropped when empty.
FileLines(file) ==
  LET lines == SplitLines(file, <<>>) IN
  IF lines[Len(lines)] = <<>> THEN SubSeq(lines, 1, Len(lines) - 1) ELSE lines

\* serde_json::from_str::<Value>(line) succeeds: the line is exactly the text
\* of one event.
IsJson(line) ==
  /\ Len(line) = 2
  /\ line[2][1] = "rest"
  /\ line[1] = HeadOf(line[2][2])

required_fields(type) ==
  CASE type = "task.created" -> {"title"}
    [] type = "task.status_set" -> {"status"}
    [] type = "task.noted" -> {"text"}
    [] type = "task.spec_attached" -> {"spec_path", "spec_fingerprint"}
    [] type \in {"dep.added", "dep.removed"} -> {"blocker"}
    [] type \in {"link.added", "link.removed"} -> {"type"}
    [] OTHER -> {}

\* parse_event_record returns Ok.
parse_event_record(event) ==
  /\ event.actor # ""
  /\ event.type \in EventTypes
  /\ event.task_id # EmptyId
  /\ required_fields(event.type) \subseteq DOMAIN event.payload
  /\ ("dep_type" \in DOMAIN event.payload /\ event.type \in {"dep.added", "dep.removed"})
       => event.payload.dep_type \in DepTypes

EventsCorrupt(line) == [ok |-> FALSE, code |-> "EVENTS_CORRUPT", line |-> line]

\* The loop of read_events; index counts from 0 as enumerate() does.
RECURSIVE ReadLoop(_, _, _)
ReadLoop(lines, index, events) ==
  IF index >= Len(lines) THEN [ok |-> TRUE, events |-> events, warning |-> FALSE]
  ELSE LET line == lines[index + 1] IN
       IF line = <<>> THEN ReadLoop(lines, index + 1, events)
       ELSE IF IsJson(line)
         THEN IF parse_event_record(line[1][2])
                THEN ReadLoop(lines, index + 1, Append(events, line[1][2]))
                ELSE EventsCorrupt(index + 1)
       ELSE IF index = Len(lines) - 1
         THEN [ok |-> TRUE, events |-> events, warning |-> TRUE]
       ELSE EventsCorrupt(index + 1)

read_events(file) == ReadLoop(FileLines(file), 0, <<>>)

\* serde of Task: an Option field that is None is left out of the JSON and
\* comes back as None; notes and labels default to the empty list.
OptionalTaskFields ==
  {"description", "spec_path", "spec_fingerprint", "spec_attached_at",
   "spec_attached_by", "assignee", "external_ref", "discovered_from", "parent_id",
   "superseded_by", "duplicate_of", "planning_state", "replies_to", "closed_at"}

TaskFields ==
  OptionalTaskFields \cup
  {"id", "kind", "title", "notes", "status", "priority", "labels", "created_at",
   "updated_at"}

TaskToJson(task) ==
  [k \in {f \in DOMAIN task : ~(f \in OptionalTaskFields /\ task[f] = None)} |->
     IF k \in OptionalTaskFields THEN task[k][1] ELSE task[k]]

TaskFromJson(json) ==
  [k \in TaskFields |->
     IF k \in OptionalTaskFields
       THEN (IF k \in DOMAIN json THEN Some(json[k]) ELSE None)
     ELSE IF k \in {"notes", "labels"}
       THEN (IF k \in DOMAIN json THEN json[k] ELSE <<>>)
     ELSE json[k]]

\* serde_json::to_string_pretty(state)
StateToJson(state) ==
  [state EXCEPT !.tasks = [id \in DOMAIN state.tasks |-> TaskToJson(state.tasks[id])]]

\* serde_json::from_str::<State>(raw)
StateFromJson(json) ==
  [json EXCEPT !.tasks = [id \in DOMAIN json.tasks |-> TaskFromJson(json.tasks[id])]]

read_state_cache(state_file) ==
  IF state_file = None THEN None ELSE Some(StateFromJson(state_file[1]))

\* The decimal digits of a count, as they stand in a file name.
Digits(n) == IF n < 10 THEN <<n>> ELSE <<n \div 10, n % 10>>

\* String order on digit strings.
RECURSIVE SeqLess(_, _)
SeqLess(a, b) ==
  IF b = <<>> THEN FALSE
  ELSE IF a = <<>> THEN TRUE
  ELSE IF a[1] # b[1] THEN a[1] < b[1]
  ELSE SeqLess(Tail(a), Tail(b))

\* snapshot_filename: "<taken_at>-<event_count>.json"
snapshot_filename(snapshot) == <<snapshot.taken_at, Digits(snapshot.event_count)>>

\* The order candidates.sort() puts file names in.
NameLess(a, b) == a[1] < b[1] \/ (a[1] = b[1] /\ SeqLess(a[2], b[2]))

Newest(dir) ==
  CHOOSE s \in dir :
    \A t \in dir : t = s \/ NameLess(snapshot_filename(t), snapshot_filename(s))

Oldest(dir) ==
  CHOOSE s \in dir :
    \A t \in dir : t = s \/ NameLess(snapshot_filename(s), snapshot_filename(t))

Min2(a, b) == IF a <= b THEN a ELSE b

\* The content of a snapshot file that serde_json::from_str::<Snapshot> does
\* not accept; the file keeps its name.
Unparsable == <<>>

\* candidates.sort(): the files in ascending order of name.
RECURSIVE SortNames(_)
SortNames(dir) ==
  IF dir = {} THEN <<>>
  ELSE <<Oldest(dir)>> \o SortNames(dir \ {Oldest(dir)})

\* invalid_snapshot_warning: the first three names and the count of the rest.
invalid_snapshot_warning(invalid) ==
  [names |-> SubSeq(invalid, 1, Min2(3, Len(invalid))),
   more |-> IF Len(invalid) > 3 THEN Len(invalid) - 3 ELSE 0]

\* The loop over candidates.iter().rev(): the first file that deserializes is
\* returned, the names passed over are collected.
RECURSIVE ScanSnapshots(_, _, _)
ScanSnapshots(candidates, index, invalid) ==
  LET warning == IF invalid = <<>> THEN None
                 ELSE Some(invalid_snapshot_warning(invalid))
  IN IF index = 0 THEN [snapshot |-> None, warning |-> warning]
     ELSE IF candidates[index].state # Unparsable
       THEN [snapshot |-> Some([candidates[index] EXCEPT !.state = StateFromJson(@)]),
             warning |-> warning]
     ELSE ScanSnapshots(candidates, index - 1,
                        Append(invalid, snapshot_filename(candidates[index])))

load_latest_snapshot_with_warning(dir) ==
  ScanSnapshots(SortNames(dir), Cardinality(dir), <<>>)

load_latest_snapshot(dir) == load_latest_snapshot_with_warning(dir).snapshot

RECURSIVE prune_snapshots(_)
prune_snapshots(dir) ==
  IF Cardinality(dir) <= SNAPSHOT_RETAIN_COUNT THEN dir
  ELSE prune_snapshots(dir \ {Oldest(dir)})

\* write_snapshot: the file replaces one of the same name, then the directory
\* is pruned.
write_snapshot(dir, snapshot) ==
  LET file == [snapshot EXCEPT !.state = StateToJson(@)] IN
  prune_snapshots({s \in dir : snapshot_filename(s) # snapshot_filename(file)}
                  \cup {file})

LoadedState(state, events, warning) ==
  [ok |-> TRUE, state |-> state, all_events |-> events, warning |-> warning]

\* Where replay starts on a snapshot base.
SnapshotStartOffsetZero(snapshot, events) ==
  0
SnapshotStartOffset(snapshot, events) ==
  IF snapshot = None THEN 0 ELSE Min2(snapshot[1].event_count, Len(events))

\* The end of both branches of load_projected_state: the replayed state with
\* applied_events set, or the projector's error.
Replayed(r, events, warning) ==
  IF r.ok
    THEN LoadedState([r.state EXCEPT !.applied_events = Len(events)], events, warning)
    ELSE r

\* The cache branch of load_projected_state, without the replay of the tail.
LoadFromCacheNoReplay(from_cache, events, warning) ==
  LoadedState([from_cache EXCEPT !.applied_events = Len(events)], events, warning)
LoadFromCache(from_cache, events, warning) ==
  LET offset == from_cache.applied_events IN
  IF offset = Len(events) THEN LoadedState(from_cache, events, warning)
  ELSE Replayed(apply_events(from_cache, SubSeq(events, offset + 1, Len(events))),
                events, warning)

\* The fallback branch: latest snapshot or the empty state, then the tail.
LoadFromSnapshot(snapshot, events, warning) ==
  LET base == IF snapshot = None THEN create_empty_state ELSE snapshot[1].state
      start_offset == SnapshotStartOffset(snapshot, events)
  IN Replayed(apply_events(base, SubSeq(events, start_offset + 1, Len(events))),
              events, warning)

\* combine_warnings: the parts that are present, joined.
combine_warnings(event_warning, other) ==
  (IF event_warning THEN <<"malformed trailing line">> ELSE <<>>)
    \o (IF other = None THEN <<>> ELSE other)

load_projected_state(events_file, state_file, snapshots_dir) ==
  LET read == read_events(events_file)
      Fallback(loaded) ==
        LoadFromSnapshot(loaded.snapshot, read.events,
                         combine_warnings(read.warning, loaded.warning))
  IN IF ~read.ok THEN read
     ELSE LET from_cache == read_state_cache(state_file) IN
          IF from_cache # None /\ from_cache[1].applied_events <= Len(read.events)
            THEN LoadFromCache(from_cache[1], read.events, read.warning)
            ELSE Fallback(load_latest_snapshot_with_warning(snapshots_dir))

(***************************************************************************)
(* Service operations on the files (StoreSpec).  One mutating operation    *)
(* runs at a time, as inside with_write_lock; its steps are the file       *)
(* operations of append_events and persist_projection, any of which may    *)
(* fail or be cut short by the death of the process.                       *)
(***************************************************************************)
StoreIds == {TaskA, TaskB}

RECURSIVE EventsMade(_)
EventsMade(bs) == IF bs = <<>> THEN 0 ELSE Len(bs[1].events) + EventsMade(Tail(bs))

\* ctx.now() and the ULID of make_event: both grow with every event made.
Now == EventsMade(batches) + 1

sha256(content) == <<"sha256", content>>
task_spec_relative_path(id) == <<"specs", id>>

\* create with --id, up to its call of apply_events.
create_plan(state, explicit_id, first) ==
  IF explicit_id \in DOMAIN state.tasks THEN Err("ID_COLLISION")
  ELSE Planned(<<make_event(first, "task.created", explicit_id,
                            [title |-> "t", kind |-> "task", priority |-> 1,
                             status |-> "open",
                             planning_state |-> "needs_planning"])>>)

\* spec_attach without --force, up to its call of apply_events.
spec_attach_plan(state, id, content, first) ==
  IF ~must_resolve_existing(state, id) THEN Err("TASK_NOT_FOUND")
  ELSE IF /\ state.tasks[id].spec_fingerprint # None
          /\ state.tasks[id].spec_fingerprint # Some(sha256(content))
    THEN Err("SPEC_CONFLICT")
  ELSE Planned(<<make_event(first, "task.spec_attached", id,
                            [spec_path |-> task_spec_relative_path(id),
                             spec_fingerprint |-> sha256(content),
                             spec_attached_at |-> first,
                             spec_attached_by |-> "agent"])>>)

Files ==
  [eventsFile |-> eventsFile, stateFile |-> stateFile,
   snapshotsDir |-> snapshotsDir, specFiles |-> specFiles]

NoOp ==
  [events |-> <<>>, next_state |-> create_empty_state, event_count |-> 0,
   written |-> 0,
   before |-> [eventsFile |-> <<>>, stateFile |-> None, snapshotsDir |-> {},
               specFiles |-> EmptyMap]]

LoadNow == load_projected_state(eventsFile, stateFile, snapshotsDir)

StoreInit ==
  /\ LockIdle
  /\ eventsFile = <<>>
  /\ stateFile = None
  /\ snapshotsDir = {}
  /\ specFiles = EmptyMap
  /\ opPc = "idle"
  /\ op = NoOp
  /\ batches = <<>>
  /\ tailBase = Some(create_empty_state)
  /\ used = [ops |-> 0, failures |-> 0, crashes |-> 0]
  /\ st = create_empty_state
  /\ lastEvent = [op |-> "init", task_id |-> EmptyId]
  /\ lastResult = "ok"

\* The closure of an operation up to append_events: load, validate, make the
\* events, apply them.  spec_after is what the spec files are once the
\* validation has passed.
StartOp(call, loaded, plan, spec_after) ==
  /\ opPc \in {"idle", "done", "failed", "crashed"}
  /\ used.ops < MaxOps
  /\ used' = [used EXCEPT !.ops = @ + 1]
  /\ lastEvent' = call
  /\ specFiles' = IF plan.ok THEN spec_after ELSE specFiles
  /\ \E applied \in {IF plan.ok THEN apply_events(loaded.state, plan.events) ELSE plan} :
        IF applied.ok
          THEN /\ opPc' = "append"
               /\ op' = [events |-> plan.events, next_state |-> applied.state,
                         event_count |-> Len(loaded.all_events) + Len(plan.events),
                         written |-> 0, before |-> Files]
               /\ batches' = Append(batches, [events |-> plan.events,
                                              appended |-> FALSE])
               /\ st' = loaded.state
               /\ lastResult' = "running"
          ELSE /\ opPc' = "failed"
               /\ op' = [NoOp EXCEPT !.before = Files]
               /\ lastResult' = applied.code
               /\ UNCHANGED <<batches, st>>
  /\ UNCHANGED <<lockVars, eventsFile, stateFile, snapshotsDir, tailBase>>

BeginCreate(explicit_id) ==
  \E loaded \in {LoadNow} :
    StartOp([op |-> "create", task_id |-> explicit_id], loaded,
            IF loaded.ok THEN create_plan(loaded.state, explicit_id, Now) ELSE loaded,
            specFiles)

BeginUpdate(id, status) ==
  \E loaded \in {LoadNow} :
    StartOp([op |-> "update", task_id |-> id], loaded,
            IF loaded.ok
              THEN update_plan(loaded.state, id, Some("u"), Some(status), Now)
              ELSE loaded,
            specFiles)

BeginSpecAttach(id) ==
  \E loaded \in {LoadNow} :
    StartOp([op |-> "spec_attach", task_id |-> id], loaded,
            IF loaded.ok THEN spec_attach_plan(loaded.state, id, "spec", Now) ELSE loaded,
            MapPut(specFiles, id, "spec"))

\* One write() of write_all: the next token reaches the file.  With the last
\* token write_all and sync_all have returned.
AppendToken ==
  /\ opPc = "append"
  /\ \E payload \in {AppendPayload(op.events)}, loaded \in {LoadNow} :
        /\ eventsFile' = Append(eventsFile, payload[op.written + 1])
        /\ tailBase' = IF eventsFile # <<>> /\ eventsFile[Len(eventsFile)] # NewLine
                         THEN tailBase
                       ELSE IF loaded.ok THEN Some(loaded.state) ELSE None
        /\ IF op.written + 1 = Len(payload)
             THEN /\ opPc' = "cache"
                  /\ batches' = [batches EXCEPT ![Len(batches)].appended = TRUE]
             ELSE UNCHANGED <<opPc, batches>>
  /\ op' = [op EXCEPT !.written = @ + 1]
  /\ UNCHANGED <<lockVars, projVars, stateFile, snapshotsDir, specFiles, used>>

\* persist_projection: state.applied_events = event_count; write_state_cache.
WriteStateCache ==
  /\ opPc = "cache"
  /\ stateFile' = Some(StateToJson([op.next_state EXCEPT
                                      !.applied_events = op.event_count]))
  /\ opPc' = "config"
  /\ UNCHANGED <<lockVars, projVars, eventsFile, snapshotsDir, specFiles, op, batches,
                 tailBase, used>>

\* persist_projection: read_config and the decision to take a snapshot.
ReadConfig ==
  /\ opPc = "config"
  /\ IF /\ SnapshotEvery # 0
        /\ op.event_count > 0
        /\ op.event_count % SnapshotEvery = 0
       THEN opPc' = "snapshot" /\ UNCHANGED lastResult
       ELSE opPc' = "done" /\ lastResult' = "ok"
  /\ UNCHANGED <<lockVars, st, lastEvent, eventsFile, stateFile, snapshotsDir,
                 specFiles, op, batches, tailBase, used>>

WriteSnapshot ==
  /\ opPc = "snapshot"
  /\ snapshotsDir' =
       write_snapshot(snapshotsDir,
                      [taken_at |-> Now, event_count |-> op.event_count,
                       state |-> [op.next_state EXCEPT
                                    !.applied_events = op.event_count]])
  /\ opPc' = "done"
  /\ lastResult' = "ok"
  /\ UNCHANGED <<lockVars, st, lastEvent, eventsFile, stateFile, specFiles, op,
                 batches, tailBase, used>>

\* The step the operation is at returns an I/O error; the closure returns it.
IoFailure ==
  /\ opPc \in {"append", "cache", "config", "snapshot"}
  /\ used.failures < MaxIoFailures
  /\ used' = [used EXCEPT !.failures = @ + 1]
  /\ lastResult' = CASE opPc = "append" -> "EVENT_APPEND_FAILED"
                      [] opPc = "cache" -> "STATE_WRITE_FAILED"
                      [] opPc = "config" -> "CONFIG_READ_FAILED"
                      [] opPc = "snapshot" -> "SNAPSHOT_WRITE_FAILED"
  /\ opPc' = "failed"
  /\ UNCHANGED <<lockVars, st, lastEvent, eventsFile, stateFile, snapshotsDir,
                 specFiles, op, batches, tailBase>>

\* The process dies inside the closure.
StoreCrash ==
  /\ opPc \in {"append", "cache", "config", "snapshot"}
  /\ used.crashes < MaxStoreCrashes
  /\ used' = [used EXCEPT !.crashes = @ + 1]
  /\ lastResult' = "crashed"
  /\ opPc' = "crashed"
  /\ UNCHANGED <<lockVars, st, lastEvent, eventsFile, stateFile, snapshotsDir,
                 specFiles, op, batches, tailBase>>

StoreNext ==
  \/ \E explicit_id \in StoreIds : BeginCreate(explicit_id)
  \/ \E id \in StoreIds, status \in {"closed", "in_progress"} : BeginUpdate(id, status)
  \/ \E id \in StoreIds : BeginSpecAttach(id)
  \/ AppendToken
  \/ WriteStateCache
  \/ ReadConfig
  \/ WriteSnapshot
  \/ IoFailure
  \/ StoreCrash

StoreSpec == StoreInit /\ [][StoreNext]_vars

(***************************************************************************)
(* Properties of the event log and of load (StoreSpec)                     *)
(***************************************************************************)
InLog(event, log) == \E i \in 1..Len(log) : log[i] = event

\* The batch stands in the log whole, contiguous and in order.
WholeInOrder(batch, log) ==
  \E i \in 0..(Len(log) - Len(batch)) : SubSeq(log, i + 1, i + Len(batch)) = batch

\* C3 (append atomicity): once append_events has returned Ok for a batch,
\* every read_events returns a log holding the whole batch in order; and no
\* read_events, whenever it runs, returns a log holding some but not all
\* events of one batch.
AppendAtomicity ==
  LET read == read_events(eventsFile) IN
  \A b \in 1..Len(batches) :
    LET batch == batches[b].events IN
    /\ batches[b].appended => (read.ok /\ WholeInOrder(batch, read.events))
    /\ read.ok => \/ \A i \in 1..Len(batch) : InLog(batch[i], read.events)
                  \/ \A i \in 1..Len(batch) : ~InLog(batch[i], read.events)

\* The event is a complete line of events.jsonl.
IsLineOfLog(event) ==
  \E l \in 1..Len(FileLines(eventsFile)) : FileLines(eventsFile)[l] = EventLine(event)

\* C4 (failure atomicity): when an operation has returned an error from its
\* locked section, by a rejection or by an I/O failure at the append, the
\* state-cache write, the config read or the snapshot write, none of its events
\* is in the log, and state cache, snapshots and spec files are what they were
\* when it began.
FailureAtomicity ==
  opPc = "failed" =>
    /\ \A i \in 1..Len(op.events) : ~IsLineOfLog(op.events[i])
    /\ stateFile = op.before.stateFile
    /\ snapshotsDir = op.before.snapshotsDir
    /\ specFiles = op.before.specFiles

\* load_projected_state takes its cache branch on the files as they are.
CacheUsable ==
  LET read == read_events(eventsFile)
      from_cache == read_state_cache(stateFile)
  IN /\ read.ok
     /\ from_cache # None
     /\ from_cache[1].applied_events <= Len(read.events)

\* C5 (cache equivalence): whenever load starts from state.json at watermark k
\* and folds only log[k..], it returns the state that folding the complete log
\* from the empty state returns.
CacheEquivalence ==
  CacheUsable =>
    LET full == apply_events(create_empty_state, read_events(eventsFile).events) IN
    /\ full.ok
    /\ LoadNow.ok
    /\ LoadNow.state = full.state

\* A load that starts from a cache written by an earlier operation and replays
\* a tail of the log that is not empty.
CacheBehindLog ==
  /\ CacheUsable
  /\ stateFile[1].applied_events > 0
  /\ stateFile[1].applied_events < Len(read_events(eventsFile).events)
  /\ LoadNow.ok
  /\ LoadNow.state.applied_events = Len(read_events(eventsFile).events)

\* load_projected_state with state.json deleted.
LoadWithoutCache == load_projected_state(eventsFile, None, snapshotsDir)

\* C6 (snapshot equivalence): for the accepted log E and every k <= |E|,
\* folding E[k..] onto the state after the first k events gives the fold of E
\* from the empty state; and load with state.json deleted returns what load
\* with it present returns.
SnapshotEquivalence ==
  LET read == read_events(eventsFile)
      full == apply_events(create_empty_state, read.events)
  IN /\ (read.ok /\ full.ok) =>
          \A k \in 0..Len(read.events) :
            LET at_k == apply_events(create_empty_state, SubSeq(read.events, 1, k))
                tail == SubSeq(read.events, k + 1, Len(read.events))
            IN /\ at_k.ok
               /\ apply_events(at_k.state, tail) = full
     /\ LoadWithoutCache.ok = LoadNow.ok
     /\ LoadNow.ok => LoadWithoutCache.state = LoadNow.state

\* state.json is present, and without it load replays a non-empty tail of the
\* log onto the latest snapshot.
SnapshotBehindLog ==
  /\ stateFile # None
  /\ snapshotsDir # {}
  /\ read_events(eventsFile).ok
  /\ Newest(snapshotsDir).event_count < Len(read_events(eventsFile).events)
  /\ LoadWithoutCache.ok
  /\ Cardinality(DOMAIN LoadWithoutCache.state.tasks) = 2

\* The lines of events.jsonl that are not blank and not JSON.
MalformedLines ==
  {i \in 1..Len(FileLines(eventsFile)) :
     /\ FileLines(eventsFile)[i] # <<>>
     /\ ~IsJson(FileLines(eventsFile)[i])}

\* C7 (read tolerance): when the only line that is not JSON is the final line,
\* read_events returns the events of the lines before it and a warning, and
\* load returns the state it returned before that line was written; when a
\* line that is not JSON stands earlier, read_events fails with EVENTS_CORRUPT
\* naming the 1-based number of that line.
ReadTolerance ==
  MalformedLines # {} =>
    LET lines == FileLines(eventsFile)
        first == CHOOSE i \in MalformedLines : \A j \in MalformedLines : i <= j
        before == SelectSeq(SubSeq(lines, 1, first - 1), LAMBDA l : l # <<>>)
        read == read_events(eventsFile)
    IN IF first = Len(lines)
         THEN /\ read.ok
              /\ read.warning
              /\ read.events = [i \in 1..Len(before) |-> before[i][2][2]]
              /\ LoadNow.ok
              /\ Some(LoadNow.state) = tailBase
         ELSE read = EventsCorrupt(first)

\* The operation that has just returned Ok began with a load that tolerated a
\* malformed final line of events.jsonl, and it appended events of its own.
SucceededAfterCrashMarker ==
  /\ opPc = "done"
  /\ lastResult = "ok"
  /\ op.events # <<>>
  /\ read_events(op.before.eventsFile).ok
  /\ read_events(op.before.eventsFile).warning

\* C30 (recovery after a crash marker): after a load has tolerated a malformed
\* trailing line, a later successful mutating operation leaves a log that
\* loads: load succeeds without EVENTS_CORRUPT and returns a log holding every
\* batch append_events returned Ok for, before and after the crash marker.
LoadsAfterCrashMarker ==
  SucceededAfterCrashMarker =>
    /\ read_events(eventsFile).ok
    /\ LoadNow.ok
    /\ \A b \in 1..Len(batches) :
         batches[b].appended => WholeInOrder(batches[b].events, LoadNow.all_events)

\* state.json, or the newest snapshot, reflects more events than events.jsonl
\* holds.
ProjectionAheadOfLog ==
  LET read == read_events(eventsFile)
      from_cache == read_state_cache(stateFile)
      snapshot == load_latest_snapshot(snapshotsDir)
  IN /\ read.ok
     /\ \/ from_cache # None /\ from_cache[1].applied_events > Len(read.events)
        \/ snapshot # None /\ snapshot[1].event_count > Len(read.events)

\* C36 (no base ahead of the log): a state cache or a snapshot whose event
\* count exceeds the length of the log read is ignored by load, and the state
\* returned is the fold of that log from the empty state.
NoBaseAheadOfLog ==
  ProjectionAheadOfLog =>
    \E full \in {apply_events(create_empty_state, read_events(eventsFile).events)} :
      /\ LoadNow.ok = full.ok
      /\ full.ok =>
           LoadNow.state = [full.state EXCEPT
                              !.applied_events = Len(read_events(eventsFile).events)]

\* A mutating operation has returned Ok.
CommitDone == opPc = "done" /\ lastResult = "ok" /\ op.events # <<>>

\* The snapshot files the operation has written.
SnapshotsWritten == {s \in snapshotsDir : s \notin op.before.snapshotsDir}

\* C38 (snapshot cadence): after a successful commit that brings the log to
\* n events, a snapshot with event_count n has been written if n is a positive
\* multiple of snapshot_every, and no snapshot has been written otherwise.
SnapshotCadence ==
  CommitDone =>
    \E read \in {read_events(eventsFile)} :
      /\ read.ok
      /\ IF Len(read.events) > 0 /\ Len(read.events) % SnapshotEvery = 0
           THEN \E s \in SnapshotsWritten : s.event_count = Len(read.events)
           ELSE SnapshotsWritten = {}

(***************************************************************************)
(* Folding task lifecycle events from the empty state (LifeSpec)           *)
(***************************************************************************)
LifeIds == {TaskA, TaskB}

LifeInit ==
  /\ LockIdle
  /\ StoreIdle
  /\ st = create_empty_state
  /\ lastEvent = [type |-> "none", task_id |-> EmptyId]
  /\ lastResult = "ok"

\* One step of the fold that keeps of the event only its type and task.
LifeFold(event) ==
  /\ st.applied_events < MaxLifeEvents
  /\ \E r \in {apply_event(st, event)} :
       /\ st' = IF r.ok THEN r.state ELSE st
       /\ lastResult' = IF r.ok THEN "ok" ELSE r.code
  /\ lastEvent' = [type |-> event.type, task_id |-> event.task_id]
  /\ UNCHANGED offProj

\* The payloads of task.created: the status and discovered_from are optional,
\* and the title may be missing or empty.
CreatedPayloads ==
  {[title |-> "t"]} \cup {[title |-> "t", status |-> s] : s \in Statuses}
  \cup {[title |-> ""], [status |-> "open"]}
  \cup {[title |-> "t", discovered_from |-> id] : id \in LifeIds \cup {GhostId}}

TaskCreated(id, payload) ==
  LifeFold(make_event(st.applied_events + 1, "task.created", id, payload))

TaskStatusSet(id, status) ==
  LifeFold(make_event(st.applied_events + 1, "task.status_set", id,
                      [status |-> status]))

TaskClaimed(id) ==
  LifeFold(make_event(st.applied_events + 1, "task.claimed", id, EmptyMap))

TaskSuperseded(id, with) ==
  LifeFold(make_event(st.applied_events + 1, "task.superseded", id, [with |-> with]))

TaskUpdated(id) ==
  LifeFold(make_event(st.applied_events + 1, "task.updated", id, [title |-> "u"]))

LifeNext ==
  \/ \E id \in LifeIds, payload \in CreatedPayloads : TaskCreated(id, payload)
  \/ \E id \in LifeIds, status \in Statuses : TaskStatusSet(id, status)
  \/ \E id \in LifeIds : TaskClaimed(id)
  \/ \E id \in LifeIds, with \in LifeIds : TaskSuperseded(id, with)
  \/ \E id \in LifeIds : TaskUpdated(id)

LifeSpec == LifeInit /\ [][LifeNext]_vars

\* C11: in every state reached by folding accepted events, each task has
\* closed_at set if and only if its status is closed.
ClosedAtIffClosed ==
  \A id \in DOMAIN st.tasks :
    (st.tasks[id].closed_at # None) <=> (st.tasks[id].status = "closed")

\* A task that was closed by task.superseded and then given another status:
\* its closed_at has been cleared.
ReopenedAfterSupersede ==
  \E id \in DOMAIN st.tasks :
    /\ st.tasks[id].superseded_by # None
    /\ st.tasks[id].status = "open"
    /\ st.tasks[id].closed_at = None

(***************************************************************************)
(* Folding dependency and link events together (RefSpec)                   *)
(***************************************************************************)
RefIds == {TaskA, TaskB, GhostId}

\* One step of the fold that keeps of the event only its type and task.
RefFold(type, task_id, payload) ==
  /\ st.applied_events < Len(ThreeCreated) + MaxRefEvents
  /\ \E r \in {apply_event(st, make_event(st.applied_events + 1, type, task_id, payload))} :
       /\ st' = IF r.ok THEN r.state ELSE st
       /\ lastResult' = IF r.ok THEN "ok" ELSE r.code
  /\ lastEvent' = [type |-> type, task_id |-> task_id]
  /\ UNCHANGED offProj

RefNext ==
  \/ \E child \in RefIds, blocker \in RefIds : \E payload \in DepPayloads(blocker) :
       RefFold("dep.added", child, payload)
  \/ \E child \in RefIds, blocker \in RefIds : \E payload \in DepPayloads(blocker) :
       RefFold("dep.removed", child, payload)
  \/ \E src \in RefIds, target \in RefIds : \E payload \in LinkPayloads(target) :
       RefFold("link.added", src, payload)
  \/ \E src \in RefIds, target \in RefIds : \E payload \in LinkPayloads(target) :
       RefFold("link.removed", src, payload)

RefSpec == ProjInit /\ [][RefNext]_vars

\* C12 (referential integrity): after every accepted event, every dependency
\* edge (its child key and its blocker) and every link (its source key and its
\* target) names a task of tasks.
ReferentialIntegrity ==
  /\ \A child \in DOMAIN st.deps :
       \A i \in 1..Len(st.deps[child]) :
         /\ child \in DOMAIN st.tasks
         /\ st.deps[child][i].blocker \in DOMAIN st.tasks
  /\ \A src \in DOMAIN st.links :
       \A rel_type \in DOMAIN st.links[src] :
         \A i \in 1..Len(st.links[src][rel_type]) :
           /\ src \in DOMAIN st.tasks
           /\ st.links[src][rel_type][i] \in DOMAIN st.tasks

\* A dependency edge and a link are stored, and an event naming an id that is
\* no task has just been rejected.
OrphanEdgeRejected ==
  /\ lastResult = "TASK_NOT_FOUND"
  /\ lastEvent.type \in {"dep.added", "link.added"}
  /\ lastEvent.task_id \in TaskIds
  /\ \E child \in DOMAIN st.deps : st.deps[child] # <<>>
  /\ \E src \in DOMAIN st.links : \E rel_type \in DOMAIN st.links[src] :
       st.links[src][rel_type] # <<>>

\* C13: a dep.added event whose blocker is its own task_id is rejected, for
\* blocks and for starts_after, and no state reached by folding accepted
\* events holds a dependency edge from a task to itself.
NoSelfDependency ==
  /\ (/\ lastEvent.type = "dep.added"
      /\ lastEvent.payload.blocker = lastEvent.task_id) => lastResult # "ok"
  /\ \A child \in DOMAIN st.deps :
       \A i \in 1..Len(st.deps[child]) : st.deps[child][i].blocker # child

(***************************************************************************)
(* create --parent under the write lock (ChildSpec)                        *)
(*                                                                         *)
(* Every process runs one `create --parent` through with_write_lock.  The  *)
(* lock steps are those of LockSpec; the callback loads the projection     *)
(* from the log, takes the next child id, folds its event and appends it.  *)
(* An event line is taken whole here and the load replays the whole log.   *)
(***************************************************************************)
FirstChild == TaskA \o <<1>>
ChildParents == {TaskA, FirstChild}

\* next_child_id: format!("{}.{}", parent_id, max_child + 1).
next_child_id(state, parent_id) ==
  Append(parent_id, MapGet(state.child_counters, parent_id, 0) + 1)

\* create with --parent, up to its call of apply_events.
create_child_plan(state, parent, first) ==
  IF ~must_resolve_existing(state, parent) THEN Err("NOT_FOUND")
  ELSE Planned(<<make_event(first, "task.created", next_child_id(state, parent),
                            [title |-> "t", kind |-> "task", priority |-> 1,
                             status |-> "open", parent_id |-> parent,
                             planning_state |-> "needs_planning"])>>)

ChildInit ==
  /\ ProjIdle
  /\ StoreIdle
  /\ LockFree
  /\ mergeRun = <<>>
  /\ RunIdle
  /\ taskLog = <<make_event(1, "task.created", TaskA, [title |-> "a"])>>
  /\ planned = [p \in Pids |-> <<>>]

\* The callback of create up to append_events: load_projected_state, the id,
\* make_event and apply_events.  An error leaves the callback at once.
CreatePlan(p, parent) ==
  /\ pc[p] = "held"
  /\ \E loaded \in {apply_events(create_empty_state, taskLog)} :
       \E plan \in {IF loaded.ok
                      THEN create_child_plan(loaded.state, parent, Len(taskLog) + 1)
                      ELSE loaded} :
         IF plan.ok /\ apply_events(loaded.state, plan.events).ok
           THEN /\ planned' = [planned EXCEPT ![p] = plan.events]
                /\ pc' = [pc EXCEPT ![p] = "create_append"]
           ELSE /\ pc' = [pc EXCEPT ![p] = "release_read"]
                /\ UNCHANGED planned
  /\ UNCHANGED <<projVars, storeVars, lockFile, lockWritten, staleFile, raw, createdAt,
                 clock, crashes, lockLog, nWritten, taskLog, mergeRun, runVars>>

\* append_events of the one event, then persist_projection and Ok(task).
CreateAppend(p) ==
  /\ pc[p] = "create_append"
  /\ taskLog' = taskLog \o planned[p]
  /\ pc' = [pc EXCEPT ![p] = "release_read"]
  /\ UNCHANGED <<projVars, storeVars, lockFile, lockWritten, staleFile, raw, createdAt,
                 clock, crashes, lockLog, nWritten, planned, mergeRun, runVars>>

ChildNext ==
  \/ \E p \in Pids : StartAcquire(p)
  \/ \E p \in Pids : CreateLockOk(p)
  \/ \E p \in Pids : CreateLockExists(p)
  \/ \E p \in Pids : WriteLockPayload(p)
  \/ \E p \in Pids : CleanupRead(p)
  \/ \E p \in Pids : CleanupCheck(p)
  \/ \E p \in Pids : CleanupRename(p)
  \/ \E p \in Pids : CleanupCompare(p)
  \/ \E p \in Pids : CleanupRestore(p)
  \/ \E p \in Pids : CleanupRemove(p)
  \/ \E p \in Pids : LockTimeout(p)
  \/ \E p \in Pids : SleepRetry(p)
  \/ \E p \in Pids, parent \in ChildParents : CreatePlan(p, parent)
  \/ \E p \in Pids : CreateAppend(p)
  \/ \E p \in Pids : ReleaseRead(p)
  \/ \E p \in Pids : ReleaseRemove(p)
  \/ \E p \in Pids : Crash(p)
  \/ Elapse

ChildSpec == ChildInit /\ [][ChildNext]_vars

\* create returned Ok(task) to process p.
CreateReturned(p) ==
  planned[p] # <<>> /\ pc[p] \in {"release_read", "release_remove", "done"}

\* The last segments of the ids created under parent, in log order.
RECURSIVE ChildSuffixes(_, _)
ChildSuffixes(log, parent) ==
  IF log = <<>> THEN <<>>
  ELSE LET Rest(tail) ==
             IF /\ PGet(log[1].payload, "parent_id") = Some(parent)
                /\ Len(log[1].task_id) = Len(parent) + 1
               THEN <<log[1].task_id[Len(log[1].task_id)]>> \o tail
               ELSE tail
       IN Rest(ChildSuffixes(Tail(log), parent))

\* child_counters[parent] is at least the numeric suffix of every child.
CountersCoverChildren(r) ==
  r.ok => \A id \in DOMAIN r.state.tasks :
            LET parent == r.state.tasks[id].parent_id
            IN (parent # None /\ Len(id) = Len(parent[1]) + 1)
                 => MapGet(r.state.child_counters, parent[1], 0) >= id[Len(id)]

\* C14: the children created under a parent are P.1, P.2, ... in the order of
\* their creation, no two create calls return the same id and no id is
\* created twice in the log, and child_counters[P] is at least the largest
\* numeric suffix of any child of P.
ChildIdAllocation ==
  /\ \A parent \in ChildParents :
       \E suffixes \in {ChildSuffixes(taskLog, parent)} :
         \A i \in 1..Len(suffixes) : suffixes[i] = i
  /\ \A p, q \in Pids :
       (CreateReturned(p) /\ CreateReturned(q) /\ p # q)
         => planned[p][1].task_id # planned[q][1].task_id
  /\ \A i, j \in 1..Len(taskLog) :
       i # j => taskLog[i].task_id # taskLog[j].task_id
  /\ CountersCoverChildren(apply_events(create_empty_state, taskLog))

(***************************************************************************)
(* Merge driver: store/merge_driver.rs, cli/commands/sync.rs (MergeSpec)   *)
(*                                                                         *)
(* An event id is a ULID, <<ms, random>>: the 26 characters compare first  *)
(* by the millisecond of Ulid::new() and then by its random part.  Each of *)
(* the three files is a log as append_events writes it: ids are distinct   *)
(* and their milliseconds never decrease along the log.                    *)
(***************************************************************************)
Ulids == {<<1, 1>>, <<1, 2>>, <<2, 1>>}
MergeTitles == {"a", "b"}

\* String::cmp on two ULIDs.
UlidLess(a, b) == a[1] < b[1] \/ (a[1] = b[1] /\ a[2] < b[2])

DriverEvents ==
  {make_event(id, "task.updated", TaskA, [title |-> title]) :
     id \in Ulids, title \in MergeTitles}

StoreWritten(log) ==
  \A i, j \in 1..Len(log) : i < j => (log[i].id # log[j].id /\ log[i].id[1] <= log[j].id[1])

MergeLogs ==
  {log \in UNION {[1..n -> DriverEvents] : n \in 0..MaxMergeLen} : StoreWritten(log)}

FileOf(log) == IF log = <<>> THEN <<>> ELSE AppendPayload(log)

\* event_id: `id`, else the legacy `event_id` (parse_event_record sets both).
event_id(record) == record.id

\* canonical_json: serde_json::to_string(record).
canonical_json(record) == EventLine(record)

\* The scan that stops recording after its first conflicting id.
RECURSIVE MergeScanFirstOnly(_, _, _)
MergeScanFirstOnly(records, seen, conflicting_ids) ==
  IF records = <<>> THEN [seen |-> seen, conflicting_ids |-> conflicting_ids]
  ELSE IF event_id(records[1]) \in DOMAIN seen
    THEN MergeScanFirstOnly(Tail(records), seen,
           IF /\ canonical_json(seen[event_id(records[1])]) # canonical_json(records[1])
              /\ conflicting_ids = <<>>
             THEN Append(conflicting_ids, event_id(records[1]))
             ELSE conflicting_ids)
  ELSE MergeScanFirstOnly(Tail(records), MapPut(seen, event_id(records[1]), records[1]),
                 conflicting_ids)

\* The loop over all_sources: the first record of an id is kept; a later
\* one with another canonical_json marks the id as conflicting, once.
RECURSIVE MergeScan(_, _, _)
MergeScan(records, seen, conflicting_ids) ==
  IF records = <<>> THEN [seen |-> seen, conflicting_ids |-> conflicting_ids]
  ELSE IF event_id(records[1]) \in DOMAIN seen
    THEN MergeScan(Tail(records), seen,
           IF /\ canonical_json(seen[event_id(records[1])]) # canonical_json(records[1])
              /\ ~InSeq(event_id(records[1]), conflicting_ids)
             THEN Append(conflicting_ids, event_id(records[1]))
             ELSE conflicting_ids)
  ELSE MergeScan(Tail(records), MapPut(seen, event_id(records[1]), records[1]),
                 conflicting_ids)

\* The comparator taken the other way round: b.cmp(a).
RECURSIVE SortUlidsDescending(_)
SortUlidsDescending(ids) ==
  IF ids = {} THEN <<>>
  ELSE LET last == CHOOSE a \in ids : \A b \in ids \ {a} : UlidLess(a, b)
       IN Append(SortUlidsDescending(ids \ {last}), last)

\* sort / sort_by(a.cmp(b)) on ids.
RECURSIVE SortUlids(_)
SortUlids(ids) ==
  IF ids = {} THEN <<>>
  ELSE LET first == CHOOSE a \in ids : \A b \in ids \ {a} : UlidLess(a, b)
       IN <<first>> \o SortUlids(ids \ {first})

RangeOf(seq) == {seq[i] : i \in 1..Len(seq)}

\* merge_events_files up to its call of write_events_to_path.
merge_events_files(ancestor, ours, theirs) ==
  LET Outcome(scan, total_input) ==
        IF scan.conflicting_ids # <<>>
          THEN [ok |-> TRUE, conflict |-> TRUE,
                conflicting_ids |-> SortUlids(RangeOf(scan.conflicting_ids)),
                total_events |-> Cardinality(DOMAIN scan.seen),
                duplicates_removed |-> total_input - Cardinality(DOMAIN scan.seen),
                merged |-> <<>>]
          ELSE LET order == SortUlids(DOMAIN scan.seen)
               IN [ok |-> TRUE, conflict |-> FALSE, conflicting_ids |-> <<>>,
                   total_events |-> Len(order),
                   duplicates_removed |-> total_input - Len(order),
                   merged |-> [i \in 1..Len(order) |-> scan.seen[order[i]]]]
      Scanned(a, o, t) ==
        IF ~a.ok THEN a
        ELSE IF ~o.ok THEN o
        ELSE IF ~t.ok THEN t
        ELSE Outcome(MergeScan(a.events \o o.events \o t.events, EmptyMap, <<>>),
                     Len(a.events) + Len(o.events) + Len(t.events))
  IN Scanned(read_events(ancestor), read_events(ours), read_events(theirs))

NotExited == -1

MergeInit ==
  /\ LockFree
  /\ ProjIdle
  /\ StoreIdle
  /\ taskLog = <<>>
  /\ planned = [p \in Pids |-> <<>>]
  /\ RunIdle
  /\ \E a, o, t \in MergeLogs :
       mergeRun = [pc |-> "start", ancestor |-> FileOf(a), ours |-> FileOf(o),
                   theirs |-> FileOf(t), before |-> FileOf(o), merged |-> <<>>,
                   written |-> 0, exit |-> NotExited, conflicting_ids |-> <<>>,
                   io_error |-> FALSE]

offMerge == <<pc, lockFile, lockWritten, staleFile, raw, createdAt, clock, crashes,
              lockLog, nWritten, taskLog, planned, runVars, projVars, storeVars>>

\* execute_merge_driver calls merge_events_files: the three reads and the
\* scan.  A conflict or an error returns here with the exit code.
MergeScanFiles ==
  /\ mergeRun.pc = "start"
  /\ \E outcome \in {merge_events_files(mergeRun.ancestor, mergeRun.ours,
                                        mergeRun.theirs)} :
       mergeRun' =
         IF ~outcome.ok THEN [mergeRun EXCEPT !.pc = "done", !.exit = 2]
         ELSE IF outcome.conflict
           THEN [mergeRun EXCEPT !.pc = "done", !.exit = 1,
                                 !.conflicting_ids = outcome.conflicting_ids]
         ELSE [mergeRun EXCEPT !.pc = "create", !.merged = outcome.merged]
  /\ UNCHANGED offMerge

\* write_events_to_path: fs::File::create(path) truncates the ours file.
MergeCreateFile ==
  /\ mergeRun.pc = "create"
  /\ mergeRun' = [mergeRun EXCEPT !.pc = "write", !.ours = <<>>]
  /\ UNCHANGED offMerge

\* write_events_to_path: writeln!(file, "{}", line) of the next record.
MergeWriteLine ==
  /\ mergeRun.pc = "write"
  /\ mergeRun.written < Len(mergeRun.merged)
  /\ mergeRun' = [mergeRun EXCEPT
                    !.ours = @ \o EventLine(mergeRun.merged[mergeRun.written + 1])
                               \o <<NewLine>>,
                    !.written = @ + 1]
  /\ UNCHANGED offMerge

\* write_events_to_path: sync_all, Ok(()); the driver exits 0.
MergeSync ==
  /\ mergeRun.pc = "write"
  /\ mergeRun.written = Len(mergeRun.merged)
  /\ mergeRun' = [mergeRun EXCEPT !.pc = "done", !.exit = 0]
  /\ UNCHANGED offMerge

\* File::create, writeln! or sync_all fails: MERGE_WRITE_FAILED, exit code 2.
MergeWriteFailed ==
  /\ mergeRun.pc \in {"create", "write"}
  /\ mergeRun' = [mergeRun EXCEPT !.pc = "done", !.exit = 2, !.io_error = TRUE]
  /\ UNCHANGED offMerge

\* The driver is killed inside write_events_to_path.
MergeKilled ==
  /\ mergeRun.pc \in {"create", "write"}
  /\ mergeRun' = [mergeRun EXCEPT !.pc = "crashed"]
  /\ UNCHANGED offMerge

MergeNext ==
  \/ MergeScanFiles
  \/ MergeCreateFile
  \/ MergeWriteLine
  \/ MergeSync
  \/ MergeWriteFailed
  \/ MergeKilled

MergeSpec == MergeInit /\ [][MergeNext]_vars

\* The events of the three inputs as the run began.
InputEvents ==
  RangeOf(read_events(mergeRun.ancestor).events)
    \cup RangeOf(read_events(mergeRun.before).events)
    \cup RangeOf(read_events(mergeRun.theirs).events)

\* The ids that occur with differing content.
ConflictingIdsOf(events) ==
  {e.id : e \in {x \in events : \E y \in events : y.id = x.id /\ y # x}}
ConflictingInputIds == ConflictingIdsOf(InputEvents)

\* The driver ran to its end without an I/O error.
MergeFinished == mergeRun.pc = "done" /\ ~mergeRun.io_error

\* C15: with ours and theirs both holding the log B, for any ancestor the
\* driver exits 0 and the ours file holds exactly the event sequence B.
MergeIdempotent ==
  (MergeFinished /\ mergeRun.before = mergeRun.theirs)
    => /\ mergeRun.exit = 0
       /\ read_events(mergeRun.ours).events = read_events(mergeRun.before).events

\* C16: when no event id occurs with differing content, the driver exits 0
\* and the ours file holds exactly one record for each distinct event id of
\* ancestor, ours and theirs, in ascending order of id.
MergeResult ==
  (MergeFinished /\ ConflictingInputIds = {})
    => /\ mergeRun.exit = 0
       /\ \E out \in {read_events(mergeRun.ours).events} :
            /\ mergeRun.ours = FileOf(out)
            /\ RangeOf(out) = InputEvents
            /\ \A i, j \in 1..Len(out) : i < j => UlidLess(out[i].id, out[j].id)

\* Three distinct ids came together from the three files, one of them from
\* the ancestor, and the ours file was rewritten.
ThreeWayUnionWritten ==
  /\ MergeFinished
  /\ mergeRun.exit = 0
  /\ Len(read_events(mergeRun.ours).events) = 3
  /\ mergeRun.ancestor # <<>>
  /\ mergeRun.theirs # <<>>
  /\ mergeRun.ours # mergeRun.before

\* C17: if an event id occurs in two of the inputs with differing content,
\* the driver exits 1, reports exactly the conflicting ids, and the ours
\* file keeps the bytes it had.
MergeConflict ==
  (mergeRun.pc # "start" /\ ConflictingInputIds # {})
    => /\ mergeRun.pc = "done"
       /\ mergeRun.exit = 1
       /\ RangeOf(mergeRun.conflicting_ids) = ConflictingInputIds
       /\ mergeRun.ours = mergeRun.before

\* The driver reported two conflicting ids.
TwoConflictsReported ==
  /\ mergeRun.pc = "done"
  /\ mergeRun.exit = 1
  /\ Len(mergeRun.conflicting_ids) = 2
  /\ mergeRun.before # <<>>

\* C18: at every instant, a crash or write error included, the ours path
\* holds its previous content or the complete merged log.
MergeAtomicWrite ==
  \/ mergeRun.ours = mergeRun.before
  \/ /\ mergeRun.pc \in {"write", "done", "crashed"}
     /\ mergeRun.ours = FileOf(mergeRun.merged)

(***************************************************************************)
(* Progress of acquire_write_lock (FairLockSpec)                           *)
(*                                                                         *)
(* A process that was not killed keeps running, and the deadline is a      *)
(* wall-clock instant: every pass through the check comes after a sleep of *)
(* at least JITTER_MIN_MS, so a process that keeps reaching the check      *)
(* finds the deadline passed.                                              *)
(***************************************************************************)
Running(p) ==
  \/ StartAcquire(p)
  \/ CreateLockOk(p)
  \/ CreateLockExists(p)
  \/ WriteLockPayload(p)
  \/ CleanupRead(p)
  \/ CleanupCheck(p)
  \/ CleanupRename(p)
  \/ CleanupCompare(p)
  \/ CleanupRestore(p)
  \/ CleanupRemove(p)
  \/ LockTimeout(p)
  \/ SleepRetry(p)
  \/ BeginAppend(p)
  \/ AppendWrite(p)
  \/ ReleaseRead(p)
  \/ ReleaseRemove(p)

\* The state of LockSpec after the last process ran through with_write_lock
\* alone; the others have not started.
FairLockInit ==
  /\ ProjIdle
  /\ StoreIdle
  /\ pc = [p \in Pids |-> IF p = NPids THEN "done" ELSE "init"]
  /\ lockFile = NoFile
  /\ lockWritten = {NPids}
  /\ staleFile = [p \in Pids |-> NoFile]
  /\ raw = [p \in Pids |-> NotRead]
  /\ createdAt = [p \in Pids |-> 0]
  /\ clock = 0
  /\ crashes = 0
  /\ lockLog = [i \in 1..BatchLen |-> <<NPids, i>>]
  /\ nWritten = [p \in Pids |-> IF p = NPids THEN BatchLen ELSE 0]
  /\ taskLog = <<>>
  /\ planned = [p \in Pids |-> <<>>]
  /\ mergeRun = <<>>
  /\ RunIdle

FairLockSpec ==
  /\ FairLockInit
  /\ [][LockNext]_vars
  /\ \A p \in Pids : WF_vars(Running(p))
  /\ \A p \in Pids : SF_vars(LockTimeout(p))

\* C19: a lockfile left by a process that exited without releasing, 30 s old
\* or older, is reclaimed: a writer at its create-exclusive attempt comes to
\* create the lockfile itself, unless another writer's lockfile takes the
\* place first; the dead process blocks no later writer for ever.
StaleLockRecovered ==
  \A h, w \in Pids :
    (/\ pc[h] = "crashed"
     /\ lockFile = h
     /\ IsStaleAge(createdAt[h])
     /\ pc[w] = "create") ~> (pc[w] = "write" \/ lockFile \notin {h, w, NoFile})

DetEvents(seqno) ==
  {make_event(seqno, "task.created", id, [title |-> "t"]) : id \in TaskIds}
  \cup {make_event(seqno, "dep.added", TaskA, [blocker |-> id]) : id \in {TaskB, TaskC}}
  \cup {make_event(seqno, "link.added", TaskA, [type |-> "relates_to", target |-> TaskB])}

\* The orders in which a HashMap holding these keys may iterate.
HashOrders(keys) ==
  {order \in [1..Cardinality(keys) -> keys] :
     \A i, j \in 1..Cardinality(keys) : order[i] = order[j] => i = j}

\* serde_json::to_string_pretty(state): the texts it may produce.  An object
\* written from a HashMap is the sequence of its <<key, value>> members.
to_string_pretty(state) ==
  LET Members(map, order) == [i \in DOMAIN order |-> <<order[i], map[order[i]]>>]
      InnerOrders ==
        {inner \in [DOMAIN state.links ->
                      UNION {HashOrders(DOMAIN state.links[id]) : id \in DOMAIN state.links}] :
           \A id \in DOMAIN state.links : inner[id] \in HashOrders(DOMAIN state.links[id])}
  IN {[tasks |-> Members(StateToJson(state).tasks, tasks),
       deps |-> Members(state.deps, deps),
       links |-> Members([id \in DOMAIN state.links |->
                            Members(state.links[id], inner[id])], links),
       child_counters |-> Members(state.child_counters, counters),
       created_order |-> state.created_order,
       applied_events |-> state.applied_events] :
        tasks \in HashOrders(DOMAIN state.tasks),
        deps \in HashOrders(DOMAIN state.deps),
        links \in HashOrders(DOMAIN state.links),
        counters \in HashOrders(DOMAIN state.child_counters),
        inner \in InnerOrders}

DetInit ==
  /\ LockFree
  /\ ProjIdle
  /\ StoreIdle
  /\ taskLog = <<>>
  /\ planned = [p \in Pids |-> <<>>]
  /\ mergeRun = <<>>
  /\ generated = <<>>
  /\ reader = <<>>
  /\ folds = [events |-> <<>>, json |-> <<>>]

offDet == <<pc, lockFile, lockWritten, staleFile, raw, createdAt, clock, crashes,
            lockLog, nWritten, taskLog, planned, mergeRun, generated, reader,
            projVars, storeVars>>

\* One more event of the sequence: an event the fold accepts.
DetAppend(event) ==
  /\ folds.json = <<>>
  /\ Len(folds.events) < MaxDetEvents
  /\ apply_events(create_empty_state, Append(folds.events, event)).ok
  /\ folds' = [folds EXCEPT !.events = Append(@, event)]
  /\ UNCHANGED offDet

\* The sequence is folded from the empty state twice, and each fold's state
\* is serialized as write_state_cache does.
DetSerialize ==
  /\ folds.json = <<>>
  /\ \E first \in {apply_events(create_empty_state, folds.events)},
        second \in {apply_events(create_empty_state, folds.events)} :
       \E text1 \in to_string_pretty(first.state),
          text2 \in to_string_pretty(second.state) :
         folds' = [folds EXCEPT !.json = <<text1, text2>>]
  /\ UNCHANGED offDet

DetNext ==
  \/ \E event \in DetEvents(Len(folds.events) + 1) : DetAppend(event)
  \/ DetSerialize

DetSpec == DetInit /\ [][DetNext]_vars

\* C21: two independent folds of one event sequence from the empty state
\* serialize to the same text, byte for byte.
Determinism ==
  folds.json # <<>> => folds.json[1] = folds.json[2]

(***************************************************************************)
(* The event ids of one writer (IdSpec)                                    *)
(*                                                                         *)
(* make_event takes its id from Ulid::new(): the millisecond of the system *)
(* clock followed by 80 bits drawn at random for that call.  The ids of    *)
(* one writer's events are those of its calls, in the order of the calls.  *)
(***************************************************************************)
Randoms == {1, 2, 3, 4}

IdInit ==
  /\ LockFree
  /\ ProjIdle
  /\ StoreIdle
  /\ taskLog = <<>>
  /\ planned = [p \in Pids |-> <<>>]
  /\ mergeRun = <<>>
  /\ folds = <<>>
  /\ generated = <<>>
  /\ reader = <<>>

\* Ulid::new() in make_event.  Two calls drawing the same 80 bits within one
\* millisecond are left out.
UlidNew(random) ==
  /\ Len(generated) < MaxGenerated
  /\ ~InSeq(<<clock, random>>, generated)
  /\ generated' = Append(generated, <<clock, random>>)
  /\ UNCHANGED <<pc, lockFile, lockWritten, staleFile, raw, createdAt, clock, crashes,
                 lockLog, nWritten, taskLog, planned, mergeRun, folds, reader,
                 projVars, storeVars>>

IdNext ==
  \/ \E random \in Randoms : UlidNew(random)
  \/ Elapse

IdSpec == IdInit /\ [][IdNext]_vars

\* C22: the ids one writer generates are strictly increasing in generation
\* order, within one millisecond too.
IdsMonotonic ==
  \A i, j \in 1..Len(generated) : i < j => UlidLess(generated[i], generated[j])

(***************************************************************************)
(* Readiness and the ready listing (ReadySpec)                             *)
(*                                                                         *)
(* The state is folded from three created tasks by dependency, status and  *)
(* priority events; is_ready and ready are evaluated on every state.       *)
(***************************************************************************)
\* is_ready with the filter on dep_type left out of blocking_dep_ids.
is_ready_any_edge(state, task_id) ==
  /\ task_id \in DOMAIN state.tasks
  /\ state.tasks[task_id].status \in {"open", "in_progress"}
  /\ \A i \in 1..Len(DepsOf(state, task_id)) :
       LET blocker_id == DepsOf(state, task_id)[i].blocker
       IN /\ blocker_id \in DOMAIN state.tasks
          /\ state.tasks[blocker_id].status \in {"closed", "canceled"}

is_ready(state, task_id) ==
  /\ task_id \in DOMAIN state.tasks
  /\ state.tasks[task_id].status \in {"open", "in_progress"}
  /\ \A i \in 1..Len(blocking_dep_ids(state, task_id)) :
       LET blocker_id == blocking_dep_ids(state, task_id)[i]
       IN /\ blocker_id \in DOMAIN state.tasks
          /\ state.tasks[blocker_id].status \in {"closed", "canceled"}

\* list_ready: the loop over created_order, from position `from` on.
RECURSIVE ListReadyFrom(_, _)
ListReadyFrom(state, from) ==
  IF from > Len(state.created_order) THEN <<>>
  ELSE LET id == state.created_order[from]
       IN IF id \in DOMAIN state.tasks /\ is_ready(state, id)
            THEN <<state.tasks[id]>> \o ListReadyFrom(state, from + 1)
            ELSE ListReadyFrom(state, from + 1)

list_ready(state) == ListReadyFrom(state, 1)

\* sort_tasks: by priority, then created_at, then id.
RECURSIVE sort_tasks(_)
sort_tasks(tasks) ==
  IF tasks = <<>> THEN <<>>
  ELSE LET Before(a, b) ==
             IF a.priority # b.priority THEN a.priority < b.priority
             ELSE IF a.created_at = b.created_at THEN SeqLess(a.id, b.id)
             ELSE a.created_at < b.created_at
           sorted == sort_tasks(Tail(tasks))
           smaller == {i \in 1..Len(sorted) : Before(sorted[i], tasks[1])}
       IN SubSeq(sorted, 1, Cardinality(smaller)) \o <<tasks[1]>>
          \o SubSeq(sorted, Cardinality(smaller) + 1, Len(sorted))

\* TasqueService::ready with no lane.
ready(state) == sort_tasks(list_ready(state))

ReadyStatuses == {"in_progress", "closed", "canceled", "deferred"}
Priorities == {0}

ReadyNext ==
  \/ \E child \in TaskIds, blocker \in TaskIds : \E payload \in DepPayloads(blocker) :
       RefFold("dep.added", child, payload)
  \/ \E id \in TaskIds, status \in ReadyStatuses :
       RefFold("task.status_set", id, [status |-> status])
  \/ \E id \in TaskIds, priority \in Priorities :
       RefFold("task.updated", id, [priority |-> priority])

ReadySpec == ProjInit /\ [][ReadyNext]_vars

\* The blockers of the blocks edges stored for a task.
BlocksBlockers(task_id) ==
  {MapGet(st.deps, task_id, <<>>)[i].blocker :
     i \in {k \in 1..Len(MapGet(st.deps, task_id, <<>>)) :
              MapGet(st.deps, task_id, <<>>)[k].dep_type = "blocks"}}

\* C23: a task is ready if and only if its status is open or in_progress and
\* every blocker of one of its blocks edges is closed or canceled; its
\* starts_after edges do not count.
ReadyIffUnblocked ==
  \A id \in EventIds :
    is_ready(st, id) <=>
      /\ id \in DOMAIN st.tasks
      /\ st.tasks[id].status \in {"open", "in_progress"}
      /\ \A blocker \in BlocksBlockers(id) :
           /\ blocker \in DOMAIN st.tasks
           /\ st.tasks[blocker].status \in {"closed", "canceled"}

\* tsq-1 is ready: its blocks blocker tsq-2 is closed, and tsq-3, which it
\* starts after, is still open.
ReadyDespiteStartsAfter ==
  /\ is_ready(st, TaskA)
  /\ BlocksBlockers(TaskA) = {TaskB}
  /\ st.tasks[TaskB].status = "closed"
  /\ InSeq([blocker |-> TaskC, dep_type |-> "starts_after"], MapGet(st.deps, TaskA, <<>>))
  /\ st.tasks[TaskC].status = "open"

\* The ids of created_order, from position `from` on, whose tasks are ready.
RECURSIVE ReadyIdsFrom(_)
ReadyIdsFrom(from) ==
  IF from > Len(st.created_order) THEN <<>>
  ELSE (IF is_ready(st, st.created_order[from]) THEN <<st.created_order[from]>> ELSE <<>>)
       \o ReadyIdsFrom(from + 1)

\* C24: ready() returns exactly the ready tasks, in the order of their ids in
\* created_order.
ReadyInCreationOrder ==
  [i \in 1..Len(ready(st)) |-> ready(st)[i].id] = ReadyIdsFrom(1)

(***************************************************************************)
(* Rejected lifecycle events (LifeSpec)                                    *)
(***************************************************************************)
\* C25: while a task is closed or canceled, no step of the fold leaves it
\* in_progress, and task.status_set with target in_progress and task.claimed
\* both end with INVALID_TRANSITION and leave the state as it was.
NoReturnToInProgress ==
  [][\A id \in LifeIds :
       (id \in DOMAIN st.tasks /\ st.tasks[id].status \in {"closed", "canceled"}) =>
         /\ st'.tasks[id].status # "in_progress"
         /\ (TaskStatusSet(id, "in_progress") \/ TaskClaimed(id)) =>
              (lastResult' = "INVALID_TRANSITION" /\ st' = st)]_vars

\* task.claimed was folded on a canceled task and rejected.
ClaimOfCanceledRejected ==
  /\ lastEvent.type = "task.claimed"
  /\ lastResult = "INVALID_TRANSITION"
  /\ st.tasks[lastEvent.task_id].status = "canceled"

(***************************************************************************)
(* starts_after edges and the cycle check (DepSpec)                        *)
(***************************************************************************)
\* C26: a dep.added of type starts_after from child to another task that
\* already reaches child along blocks edges is accepted, and its edge is
\* stored.
StartsAfterSkipsCycleCheck ==
  [][(/\ lastEvent'.type = "dep.added"
      /\ DepTypeOf(lastEvent'.payload) = "starts_after"
      /\ lastEvent'.task_id # lastEvent'.payload.blocker
      /\ <<lastEvent'.payload.blocker, lastEvent'.task_id>>
           \in TransitiveClosure(BlocksEdges(st)))
       => /\ lastResult' = "ok"
          /\ InSeq([blocker |-> lastEvent'.payload.blocker, dep_type |-> "starts_after"],
                   MapGet(st'.deps, lastEvent'.task_id, <<>>))]_vars

\* tsq-2 is blocked by tsq-1, and tsq-1 has been made to start after tsq-2:
\* a blocks edge in place of the last one would have closed a cycle.
StartsAfterAgainstBlocks ==
  /\ lastEvent.type = "dep.added"
  /\ lastEvent.task_id = TaskA
  /\ lastEvent.payload = [blocker |-> TaskB, dep_type |-> "starts_after"]
  /\ lastResult = "ok"
  /\ <<TaskB, TaskA>> \in TransitiveClosure(BlocksEdges(st))
  /\ InSeq([blocker |-> TaskB, dep_type |-> "starts_after"], MapGet(st.deps, TaskA, <<>>))
  /\ ~apply_dep_added(st, make_event(0, "dep.added", TaskA,
                                      [blocker |-> TaskB, dep_type |-> "blocks"])).ok

\* C27: folding task.created fails with TASK_EXISTS if the id is present,
\* with INVALID_EVENT if the title is missing or empty, and with
\* TASK_NOT_FOUND if discovered_from names a missing task or the task itself;
\* the state is then unchanged.
TaskCreatedErrors ==
  [][\A id \in LifeIds, payload \in CreatedPayloads :
       TaskCreated(id, payload) =>
         IF id \in DOMAIN st.tasks
           THEN lastResult' = "TASK_EXISTS" /\ st' = st
         ELSE IF "title" \notin DOMAIN payload \/ payload.title = ""
           THEN lastResult' = "INVALID_EVENT" /\ st' = st
         ELSE IF /\ "discovered_from" \in DOMAIN payload
                 /\ (\/ payload.discovered_from = id
                     \/ payload.discovered_from \notin DOMAIN st.tasks)
           THEN lastResult' = "TASK_NOT_FOUND" /\ st' = st
         ELSE lastResult' = "ok"]_vars

(***************************************************************************)
(* read_events on logs that this program did not write (ReadSpec)          *)
(*                                                                         *)
(* events.jsonl is a file under version control: its lines may come from   *)
(* another version of the tool or from an edit by hand.  Every line here   *)
(* is the JSON text of a record with id, ts, actor, type and task_id; the  *)
(* payloads hold or lack the keys of their kind.                           *)
(***************************************************************************)
ForeignPayloads(type) ==
  CASE type = "task.created" -> {[title |-> "t"], [title |-> ""], EmptyMap}
    [] type = "task.status_set" -> {[status |-> "closed"], EmptyMap}
    [] type = "task.noted" -> {[text |-> "n"], EmptyMap}
    [] type = "task.superseded" -> {[with |-> TaskB], EmptyMap}
    [] type = "dep.added" -> {[blocker |-> TaskB], EmptyMap}
    [] type = "link.added" ->
         {[type |-> "relates_to", target |-> TaskB], [type |-> "relates_to"],
          [target |-> TaskB]}

ForeignTypes ==
  {"task.created", "task.status_set", "task.noted", "task.superseded", "dep.added",
   "link.added"}

ReadInit ==
  /\ LockIdle
  /\ StoreIdle
  /\ st = 0
  /\ lastEvent = 0
  /\ lastResult = [ok |-> TRUE, events |-> <<>>, warning |-> FALSE]

\* One more line is in the file when it is read next.
ForeignLine(type, payload) ==
  /\ Len(FileLines(eventsFile)) < MaxReadLines
  /\ eventsFile' = eventsFile \o AppendPayload(
                     <<make_event(Len(FileLines(eventsFile)) + 1, type, TaskA, payload)>>)
  /\ lastResult' = read_events(eventsFile')
  /\ UNCHANGED <<lockVars, st, lastEvent, stateFile, snapshotsDir, specFiles, opPc, op,
                 batches, tailBase, used>>

ReadNext ==
  \E type \in ForeignTypes : \E payload \in ForeignPayloads(type) :
    ForeignLine(type, payload)

ReadSpec == ReadInit /\ [][ReadNext]_vars

\* The payload of a record lacks a key its kind requires.
LacksRequiredKey(record) ==
  LET Has(key) == key \in DOMAIN record.payload
      NonEmpty(key) == Has(key) /\ record.payload[key] # ""
  IN CASE record.type = "task.created" -> ~NonEmpty("title")
       [] record.type = "task.status_set" -> ~Has("status")
       [] record.type = "task.noted" -> ~NonEmpty("text")
       [] record.type = "task.spec_attached" ->
            ~(Has("spec_path") /\ Has("spec_fingerprint"))
       [] record.type = "task.superseded" -> ~Has("with")
       [] record.type \in {"dep.added", "dep.removed"} -> ~Has("blocker")
       [] record.type \in {"link.added", "link.removed"} -> ~(Has("type") /\ Has("target"))
       [] OTHER -> FALSE

\* C28: when a line of the log is a well-formed record whose payload lacks a
\* required key of its kind, read() fails with EVENTS_CORRUPT and names the
\* first such line.
StrictReadValidation ==
  \A n \in 1..Len(FileLines(eventsFile)) :
    (/\ LacksRequiredKey(FileLines(eventsFile)[n][2][2])
     /\ \A m \in 1..(n - 1) : ~LacksRequiredKey(FileLines(eventsFile)[m][2][2]))
      => lastResult = EventsCorrupt(n)

(***************************************************************************)
(* repair --fix on a projection that holds orphaned edges (RepairSpec)     *)
(*                                                                         *)
(* The log holds the creation of tsq-1 and tsq-2.  state.json, which load  *)
(* trusts when its applied_events is not ahead of the log, holds edges     *)
(* whose other end, tsq-9, is in no event.  The steps after the closure's  *)
(* apply_events are those of every mutating operation.                     *)
(***************************************************************************)
RepairLog ==
  <<make_event(1, "task.created", TaskA, [title |-> "a"]),
    make_event(2, "task.created", TaskB, [title |-> "b"])>>

DamagedDeps ==
  {EmptyMap,
   [id \in {TaskA} |-> <<[blocker |-> GhostId, dep_type |-> "blocks"]>>],
   [id \in {GhostId} |-> <<[blocker |-> TaskA, dep_type |-> "starts_after"]>>],
   [id \in {TaskA} |-> <<[blocker |-> TaskB, dep_type |-> "blocks"],
                         [blocker |-> GhostId, dep_type |-> "blocks"]>>]}

DamagedLinks ==
  {EmptyMap,
   [id \in {TaskA} |-> [rel \in {"duplicates"} |-> <<GhostId>>]],
   [id \in {GhostId} |-> [rel \in {"supersedes"} |-> <<TaskB>>]],
   [id \in {TaskA, GhostId} |-> [rel \in {"relates_to"} |->
                                   IF id = TaskA THEN <<GhostId>> ELSE <<TaskA>>]],
   [id \in {TaskA, TaskB, GhostId} |-> [rel \in {"relates_to"} |->
                                          IF id = TaskA THEN <<TaskB, GhostId>>
                                          ELSE <<TaskA>>]]}

\* scan_orphaned_graph that looks only at the far end of an edge.
scan_orphaned_graphFarEnd(state) ==
  LET deps ==
        UNION {{[child |-> child, blocker |-> DepsOf(state, child)[i].blocker,
                 dep_type |-> DepsOf(state, child)[i].dep_type] :
                  i \in 1..Len(DepsOf(state, child))} : child \in DOMAIN state.deps}
      links ==
        UNION {UNION {{[src |-> src, dst |-> state.links[src][rel_type][i],
                        rel_type |-> rel_type] :
                         i \in 1..Len(state.links[src][rel_type])} :
                        rel_type \in DOMAIN state.links[src]} : src \in DOMAIN state.links}
  IN [orphaned_deps :
        HashOrders({dep \in deps : dep.blocker \notin DOMAIN state.tasks}),
      orphaned_links :
        HashOrders({link \in links : link.dst \notin DOMAIN state.tasks})]

\* scan_orphaned_graph: the lists it may return.  The edges of one child are
\* met in their order; the order across children and across sources is that
\* of the HashMap, so any order of the orphans is taken here.
scan_orphaned_graph(state) ==
  LET deps ==
        UNION {{[child |-> child, blocker |-> DepsOf(state, child)[i].blocker,
                 dep_type |-> DepsOf(state, child)[i].dep_type] :
                  i \in 1..Len(DepsOf(state, child))} : child \in DOMAIN state.deps}
      links ==
        UNION {UNION {{[src |-> src, dst |-> state.links[src][rel_type][i],
                        rel_type |-> rel_type] :
                         i \in 1..Len(state.links[src][rel_type])} :
                        rel_type \in DOMAIN state.links[src]} : src \in DOMAIN state.links}
  IN [orphaned_deps :
        HashOrders({dep \in deps : \/ dep.child \notin DOMAIN state.tasks
                                   \/ dep.blocker \notin DOMAIN state.tasks}),
      orphaned_links :
        HashOrders({link \in links : \/ link.src \notin DOMAIN state.tasks
                                     \/ link.dst \notin DOMAIN state.tasks})]

\* The events execute_repair makes from its plan.
repair_events(plan, first) ==
  [i \in 1..Len(plan.orphaned_deps) |->
     make_event(first + i - 1, "dep.removed", plan.orphaned_deps[i].child,
                [blocker |-> plan.orphaned_deps[i].blocker,
                 dep_type |-> plan.orphaned_deps[i].dep_type])]
  \o [i \in 1..Len(plan.orphaned_links) |->
        make_event(first + Len(plan.orphaned_deps) + i - 1, "link.removed",
                   plan.orphaned_links[i].src,
                   [type |-> plan.orphaned_links[i].rel_type,
                    target |-> plan.orphaned_links[i].dst])]

RepairInit ==
  /\ LockIdle
  /\ eventsFile = AppendPayload(<<RepairLog[1]>>) \o AppendPayload(<<RepairLog[2]>>)
  /\ \E deps \in DamagedDeps, links \in DamagedLinks :
       stateFile = Some(StateToJson([apply_events(create_empty_state, RepairLog).state
                                       EXCEPT !.deps = deps, !.links = links,
                                              !.applied_events = Len(RepairLog)]))
  /\ snapshotsDir = {}
  /\ specFiles = EmptyMap
  /\ opPc = "idle"
  /\ op = NoOp
  /\ batches = <<[events |-> <<RepairLog[1]>>, appended |-> TRUE],
                 [events |-> <<RepairLog[2]>>, appended |-> TRUE]>>
  /\ tailBase = Some(apply_events(create_empty_state, <<RepairLog[1]>>).state)
  /\ used = [ops |-> 0, failures |-> 0, crashes |-> 0]
  /\ st = create_empty_state
  /\ lastEvent = [op |-> "init", task_id |-> EmptyId]
  /\ lastResult = "ok"

\* execute_repair with fix: the closure up to append_events.  With no orphan
\* it makes no event and touches neither the log nor the projection.
BeginRepair ==
  \E loaded \in {LoadNow} :
    IF ~loaded.ok
      THEN StartOp([op |-> "repair", task_id |-> EmptyId], loaded, loaded, specFiles)
    ELSE \E plan \in scan_orphaned_graph(loaded.state) :
      IF repair_events(plan, Now) # <<>>
        THEN StartOp([op |-> "repair", task_id |-> EmptyId], loaded,
                     Planned(repair_events(plan, Now)), specFiles)
      ELSE /\ opPc \in {"idle", "done", "failed", "crashed"}
           /\ used.ops < MaxOps
           /\ used' = [used EXCEPT !.ops = @ + 1]
           /\ lastEvent' = [op |-> "repair", task_id |-> EmptyId]
           /\ lastResult' = "ok"
           /\ opPc' = "done"
           /\ op' = [NoOp EXCEPT !.before = Files]
           /\ st' = loaded.state
           /\ UNCHANGED <<lockVars, eventsFile, stateFile, snapshotsDir, specFiles,
                          batches, tailBase>>

RepairNext ==
  \/ BeginRepair
  \/ AppendToken
  \/ WriteStateCache
  \/ ReadConfig
  \/ WriteSnapshot
  \/ IoFailure
  \/ StoreCrash

RepairSpec == RepairInit /\ [][RepairNext]_vars

\* The stored dependency edges with an end outside tasks.
DepOrphans(state) ==
  UNION {{<<child, state.deps[child][i]>> :
            i \in {k \in 1..Len(state.deps[child]) :
                     \/ child \notin DOMAIN state.tasks
                     \/ state.deps[child][k].blocker \notin DOMAIN state.tasks}} :
           child \in DOMAIN state.deps}

\* The stored links with an end outside tasks.
LinkOrphans(state) ==
  UNION {UNION {{<<src, rel, state.links[src][rel][i]>> :
                   i \in {k \in 1..Len(state.links[src][rel]) :
                            \/ src \notin DOMAIN state.tasks
                            \/ state.links[src][rel][k] \notin DOMAIN state.tasks}} :
                  rel \in DOMAIN state.links[src]} : src \in DOMAIN state.links}

RepairSucceeded ==
  opPc = "done" /\ lastEvent.op = "repair" /\ lastResult = "ok"

\* C29: when repair --fix has succeeded, its batch holds one dep.removed or
\* link.removed event for each orphan of the projection it loaded, the batch
\* has been appended, and the projection loaded next has no edge with an end
\* outside tasks, so that a scan of it reports nothing.
RepairRemovesOrphans ==
  RepairSucceeded =>
    /\ Len(op.events) = Cardinality(DepOrphans(st)) + Cardinality(LinkOrphans(st))
    /\ \A dep \in DepOrphans(st) : \E i \in 1..Len(op.events) :
         /\ op.events[i].type = "dep.removed"
         /\ op.events[i].task_id = dep[1]
         /\ op.events[i].payload = [blocker |-> dep[2].blocker,
                                    dep_type |-> dep[2].dep_type]
    /\ \A link \in LinkOrphans(st) : \E i \in 1..Len(op.events) :
         /\ op.events[i].type = "link.removed"
         /\ op.events[i].task_id = link[1]
         /\ op.events[i].payload = [type |-> link[2], target |-> link[3]]
    /\ op.events # <<>> =>
         batches[Len(batches)] = [events |-> op.events, appended |-> TRUE]
    /\ \E loaded \in {LoadNow} :
         /\ loaded.ok
         /\ DepOrphans(loaded.state) = {}
         /\ LinkOrphans(loaded.state) = {}
         /\ scan_orphaned_graph(loaded.state)
              = {[orphaned_deps |-> <<>>, orphaned_links |-> <<>>]}

\* A repair has succeeded on a projection that held an orphaned dependency
\* and an orphaned link.
RepairedBothKinds ==
  /\ RepairSucceeded
  /\ DepOrphans(st) # {}
  /\ LinkOrphans(st) # {}
  /\ Len(op.events) >= 2

(***************************************************************************)
(* Two clones that extend one log, merged by the driver, then loaded       *)
(* (BranchSpec)                                                            *)
(*                                                                         *)
(* Both clones hold the log that created tsq-1 and tsq-2 and each runs up  *)
(* to MaxBranchLen service operations of its own.  .tasque/.gitignore      *)
(* lists state.json and snapshots/, so the merge changes events.jsonl      *)
(* only: the cache and the snapshots our clone wrote stay where they are.  *)
(***************************************************************************)
BranchAncestor ==
  <<make_event(<<1, 1>>, "task.created", TaskA, [title |-> "a"]),
    make_event(<<1, 2>>, "task.created", TaskB, [title |-> "b"])>>

OurUlids == {<<2, 1>>, <<3, 1>>}
TheirUlids == {<<2, 2>>, <<3, 2>>}
BranchCalls == {"create_child", "dep_a_on_b", "dep_b_on_a", "update"}

\* The event one service operation makes on a clone whose projection is state.
BranchEvent(state, call, ulid) ==
  CASE call = "create_child" -> create_child_plan(state, TaskA, ulid).events[1]
    [] call = "dep_a_on_b" ->
         make_event(ulid, "dep.added", TaskA, [blocker |-> TaskB, dep_type |-> "blocks"])
    [] call = "dep_b_on_a" ->
         make_event(ulid, "dep.added", TaskB, [blocker |-> TaskA, dep_type |-> "blocks"])
    [] call = "update" -> make_event(ulid, "task.updated", TaskA, [title |-> "u"])

\* The logs a clone can hold after one more successful operation.
BranchStep(logs, ulids) ==
  {next \in {Append(log, BranchEvent(apply_events(create_empty_state, log).state,
                                     call, ulid)) :
               log \in logs, call \in BranchCalls, ulid \in ulids} :
     /\ StoreWritten(next)
     /\ apply_events(create_empty_state, next).ok}

\* The logs a clone can hold after at most n operations of its own.
RECURSIVE BranchLogs(_, _)
BranchLogs(n, ulids) ==
  IF n = 0 THEN {BranchAncestor}
  ELSE LET shorter == BranchLogs(n - 1, ulids) IN
       shorter \cup BranchStep(shorter, ulids)

\* What persist_projection wrote on our clone for the events added there.
BranchSnapshots(log) ==
  {[taken_at |-> k, event_count |-> k,
    state |-> StateToJson([apply_events(create_empty_state, SubSeq(log, 1, k)).state
                             EXCEPT !.applied_events = k])] :
     k \in {n \in (Len(BranchAncestor) + 1)..Len(log) : n % SnapshotEvery = 0}}

BranchInit ==
  /\ LockFree
  /\ taskLog = <<>>
  /\ planned = [p \in Pids |-> <<>>]
  /\ RunIdle
  /\ \E o \in BranchLogs(MaxBranchLen, OurUlids), t \in BranchLogs(MaxBranchLen, TheirUlids) :
       /\ mergeRun = [pc |-> "start", ancestor |-> FileOf(BranchAncestor),
                      ours |-> FileOf(o), theirs |-> FileOf(t), before |-> FileOf(o),
                      merged |-> <<>>, written |-> 0, exit |-> NotExited,
                      conflicting_ids |-> <<>>, io_error |-> FALSE]
       /\ eventsFile = FileOf(o)
       /\ stateFile = Some(StateToJson([apply_events(create_empty_state, o).state
                                          EXCEPT !.applied_events = Len(o)]))
       /\ snapshotsDir = BranchSnapshots(o)
       /\ st = apply_events(create_empty_state, o).state
  /\ specFiles = <<>>
  /\ opPc = "idle"
  /\ op = <<>>
  /\ batches = <<>>
  /\ tailBase = <<>>
  /\ used = <<>>
  /\ lastEvent = [op |-> "init", task_id |-> EmptyId]
  /\ lastResult = "ok"

\* The driver has exited 0: git takes the ours file as the merged
\* .tasque/events.jsonl of the working tree.
GitCheckout ==
  /\ mergeRun.pc = "done"
  /\ mergeRun.exit = 0
  /\ eventsFile' = mergeRun.ours
  /\ mergeRun' = [mergeRun EXCEPT !.pc = "merged"]
  /\ lastEvent' = [op |-> "merge-driver", task_id |-> EmptyId]
  /\ UNCHANGED <<pc, lockFile, lockWritten, staleFile, raw, createdAt, clock, crashes,
                 lockLog, nWritten, taskLog, planned, runVars, st, lastResult,
                 stateFile, snapshotsDir, specFiles, opPc, op, batches, tailBase, used>>

\* The next command loads the projection.
LoadAfterMerge ==
  /\ mergeRun.pc = "merged"
  /\ \E loaded \in {LoadNow} :
       /\ lastResult' = IF loaded.ok THEN "ok" ELSE loaded.code
       /\ st' = IF loaded.ok THEN loaded.state ELSE st
  /\ mergeRun' = [mergeRun EXCEPT !.pc = "loaded"]
  /\ lastEvent' = [op |-> "load", task_id |-> EmptyId]
  /\ UNCHANGED <<pc, lockFile, lockWritten, staleFile, raw, createdAt, clock, crashes,
                 lockLog, nWritten, taskLog, planned, runVars, storeVars>>

BranchNext ==
  \/ MergeScanFiles
  \/ MergeCreateFile
  \/ MergeWriteLine
  \/ MergeSync
  \/ MergeWriteFailed
  \/ MergeKilled
  \/ GitCheckout
  \/ LoadAfterMerge

BranchSpec == BranchInit /\ [][BranchNext]_vars

\* The fold of the whole of events.jsonl from the empty state.
FullFold == apply_events(create_empty_state, read_events(eventsFile).events)

\* C31 (load after a merge): once the merge driver has rewritten events.jsonl,
\* the next load returns the fold of the complete merged log from the empty
\* state, also with the state.json written before the merge still in place.
LoadAfterMergeIsFullFold ==
  mergeRun.pc = "loaded" =>
    /\ FullFold.ok => (lastResult = "ok" /\ st = [FullFold.state EXCEPT
                                                    !.applied_events =
                                                      Len(read_events(eventsFile).events)])
    /\ ~FullFold.ok => lastResult = FullFold.code

\* The fold of the log the driver wrote to the ours path.
MergedFold == apply_events(create_empty_state, read_events(mergeRun.ours).events)

\* C32 (merge keeps the log foldable): ours and theirs each extend the common
\* ancestor log and each folds without error; then the conflict-free output
\* of the merge driver folds without error too, and the state it folds to
\* has unique task ids, no cycle of blocks edges and no duplicate_of cycle.
MergedLogFolds ==
  mergeRun.exit = 0 =>
    /\ MergedFold.ok
    /\ \A i, j \in 1..Len(MergedFold.state.created_order) :
         i # j => MergedFold.state.created_order[i] # MergedFold.state.created_order[j]
    /\ ~HasBlocksCycle(MergedFold.state)
    /\ \A t \in DOMAIN MergedFold.state.tasks :
         <<t, t>> \notin TransitiveClosure(DuplicateEdges(MergedFold.state))

(***************************************************************************)
(* Every process runs one `claim tsq-1` through with_write_lock            *)
(* (ClaimSpec).  The log holds the creation of tsq-1, open and unassigned. *)
(* planned[p] is what the callback of p came to: the task.claimed event it *)
(* made, or the error it returned.                                         *)
(***************************************************************************)
\* claim without --require-spec, up to its call of apply_events.
claim_plan(state, id, assignee, first) ==
  IF ~must_resolve_existing(state, id) THEN Err("TASK_NOT_FOUND")
  ELSE IF state.tasks[id].status \notin {"open", "in_progress"} THEN Err("INVALID_STATUS")
  ELSE IF state.tasks[id].assignee # None THEN Err("CLAIM_CONFLICT")
  ELSE Planned(<<make_event(first, "task.claimed", id, [assignee |-> assignee])>>)

ClaimInit == ChildInit

\* The callback of claim up to append_events: load_projected_state, the
\* checks, make_event and apply_events.  An error leaves the callback at once.
ClaimPlan(p) ==
  /\ pc[p] = "held"
  /\ \E loaded \in {apply_events(create_empty_state, taskLog)} :
       \E plan \in {IF loaded.ok
                      THEN claim_plan(loaded.state, TaskA, p, Len(taskLog) + 1)
                      ELSE loaded} :
         \E applied \in {IF plan.ok THEN apply_events(loaded.state, plan.events)
                         ELSE plan} :
           IF applied.ok
             THEN /\ planned' = [planned EXCEPT ![p] = plan.events]
                  /\ pc' = [pc EXCEPT ![p] = "create_append"]
             ELSE /\ planned' = [planned EXCEPT ![p] = <<applied>>]
                  /\ pc' = [pc EXCEPT ![p] = "release_read"]
  /\ UNCHANGED <<projVars, storeVars, lockFile, lockWritten, staleFile, raw, createdAt,
                 clock, crashes, lockLog, nWritten, taskLog, mergeRun, runVars>>

ClaimNext ==
  \/ \E p \in Pids : StartAcquire(p)
  \/ \E p \in Pids : CreateLockOk(p)
  \/ \E p \in Pids : CreateLockExists(p)
  \/ \E p \in Pids : WriteLockPayload(p)
  \/ \E p \in Pids : CleanupRead(p)
  \/ \E p \in Pids : CleanupCheck(p)
  \/ \E p \in Pids : CleanupRename(p)
  \/ \E p \in Pids : CleanupCompare(p)
  \/ \E p \in Pids : CleanupRestore(p)
  \/ \E p \in Pids : CleanupRemove(p)
  \/ \E p \in Pids : LockTimeout(p)
  \/ \E p \in Pids : SleepRetry(p)
  \/ \E p \in Pids : ClaimPlan(p)
  \/ \E p \in Pids : CreateAppend(p)
  \/ \E p \in Pids : ReleaseRead(p)
  \/ \E p \in Pids : ReleaseRemove(p)
  \/ \E p \in Pids : Crash(p)
  \/ Elapse

ClaimSpec == ClaimInit /\ [][ClaimNext]_vars

\* The callback of p ended with an error.
ClaimFailed(p) == planned[p] # <<>> /\ "code" \in DOMAIN planned[p][1]

\* claim returned Ok(task) to process p.
ClaimReturned(p) ==
  /\ planned[p] # <<>>
  /\ ~ClaimFailed(p)
  /\ pc[p] \in {"release_read", "release_remove", "done"}

\* C33 (claim exclusivity): a claim whose callback finds the task assigned
\* fails with CLAIM_CONFLICT; among the concurrent claim calls on the open,
\* unassigned tsq-1 at most one returns Ok, exactly one once every call has
\* run its callback, and the assignee stored is that caller.
ClaimExclusivity ==
  LET winners == {p \in Pids : ClaimReturned(p)}
      folded == apply_events(create_empty_state, taskLog)
  IN /\ Cardinality(winners) <= 1
     /\ (\A p \in Pids : pc[p] = "done") => Cardinality(winners) = 1
     /\ \A p \in Pids : ClaimFailed(p) => planned[p][1] = Err("CLAIM_CONFLICT")
     /\ \A p \in winners :
          /\ folded.ok
          /\ folded.state.tasks[TaskA].assignee = Some(p)

(***************************************************************************)
(* A load that takes no lock, beside one writer's commits (ReaderSpec)     *)
(*                                                                         *)
(* load_projected_state reads events.jsonl, then state.json, then the      *)
(* snapshots directory: three reads, and the writer's steps fall between   *)
(* them.  The writer's operations run to their end here.                   *)
(***************************************************************************)
ReaderInit == StoreInit

\* read_events; an error returns at once.
ReaderReadEvents ==
  /\ IF reader = <<>> THEN TRUE ELSE reader.pc = "returned"
  /\ (IF reader = <<>> THEN 0 ELSE reader.loads) < MaxLoads
  /\ \E read \in {read_events(eventsFile)} :
       reader' = [pc |-> IF read.ok THEN "cache" ELSE "returned",
                  read |-> read,
                  result |-> IF read.ok THEN <<>> ELSE <<read>>,
                  loads |-> (IF reader = <<>> THEN 0 ELSE reader.loads) + 1]
  /\ UNCHANGED <<pc, lockFile, lockWritten, staleFile, raw, createdAt, clock, crashes,
                 lockLog, nWritten, taskLog, planned, mergeRun, folds, generated,
                 projVars, storeVars>>

\* read_state_cache and the cache branch, when the cache is not ahead of the
\* events read.
ReaderReadCache ==
  /\ reader # <<>>
  /\ reader.pc = "cache"
  /\ \E from_cache \in {read_state_cache(stateFile)} :
       reader' =
         IF from_cache # None /\ from_cache[1].applied_events <= Len(reader.read.events)
           THEN [reader EXCEPT
                   !.pc = "returned",
                   !.result = <<LoadFromCache(from_cache[1], reader.read.events,
                                              reader.read.warning)>>]
           ELSE [reader EXCEPT !.pc = "snapshot"]
  /\ UNCHANGED <<pc, lockFile, lockWritten, staleFile, raw, createdAt, clock, crashes,
                 lockLog, nWritten, taskLog, planned, mergeRun, folds, generated,
                 projVars, storeVars>>

\* load_latest_snapshot_with_warning and the fallback branch.
ReaderReadSnapshots ==
  /\ reader # <<>>
  /\ reader.pc = "snapshot"
  /\ \E loaded \in {load_latest_snapshot_with_warning(snapshotsDir)} :
       reader' = [reader EXCEPT
                    !.pc = "returned",
                    !.result = <<LoadFromSnapshot(
                                   loaded.snapshot, reader.read.events,
                                   combine_warnings(reader.read.warning,
                                                    loaded.warning))>>]
  /\ UNCHANGED <<pc, lockFile, lockWritten, staleFile, raw, createdAt, clock, crashes,
                 lockLog, nWritten, taskLog, planned, mergeRun, folds, generated,
                 projVars, storeVars>>

ReaderNext ==
  \/ \E explicit_id \in StoreIds : BeginCreate(explicit_id)
  \/ \E id \in StoreIds, status \in {"closed", "in_progress"} : BeginUpdate(id, status)
  \/ AppendToken
  \/ WriteStateCache
  \/ ReadConfig
  \/ WriteSnapshot
  \/ ReaderReadEvents
  \/ ReaderReadCache
  \/ ReaderReadSnapshots

ReaderSpec == ReaderInit /\ [][ReaderNext]_vars

ReaderReturned == reader # <<>> /\ reader.pc = "returned"

\* C35 (lock-free reader): a load that runs beside one writer's commit
\* returns a state equal to the fold, from the empty state, of exactly the
\* event list it returns, with applied_events equal to that list's length.
ReaderConsistent ==
  ReaderReturned =>
    /\ reader.result[1].ok
    /\ \E full \in {apply_events(create_empty_state, reader.result[1].all_events)} :
         /\ full.ok
         /\ reader.result[1].state =
              [full.state EXCEPT !.applied_events = Len(reader.result[1].all_events)]

(***************************************************************************)
(* A run of commits and the snapshots it leaves (SnapSpec)                 *)
(*                                                                         *)
(* One writer creates tsq-1 and then updates it, one event per commit and  *)
(* no failure; persist_projection takes the snapshots.  taken_at is the    *)
(* millisecond of Utc::now(), which need not have advanced between two     *)
(* commits.  A snapshot file may lose its content: the file keeps its name *)
(* and no longer parses.  git may check out an earlier events.jsonl;       *)
(* state.json and snapshots/ are ignored files and stay as they are.       *)
(***************************************************************************)
SnapInit ==
  /\ LockIdle
  /\ eventsFile = <<>>
  /\ stateFile = None
  /\ snapshotsDir = {}
  /\ specFiles = EmptyMap
  /\ opPc = "idle"
  /\ op = NoOp
  /\ batches = <<>>
  /\ tailBase = None
  /\ used = [ops |-> 0, failures |-> 0, crashes |-> 0]
  /\ st = create_empty_state
  /\ lastEvent = [op |-> "init", task_id |-> EmptyId]
  /\ lastResult = "ok"

\* One create or update from load to persist_projection: the event is
\* appended, state.json is written, and the snapshot when the count asks
\* for one.
SnapCommit ==
  /\ used.ops < MaxCommits
  /\ \E loaded \in {LoadNow} :
       /\ loaded.ok
       /\ \E plan \in {IF TaskA \notin DOMAIN loaded.state.tasks
                         THEN create_plan(loaded.state, TaskA, used.ops + 1)
                         ELSE update_plan(loaded.state, TaskA, Some("u"), None,
                                          used.ops + 1)} :
            /\ plan.ok
            /\ \E applied \in {apply_events(loaded.state, plan.events)},
                  event_count \in {Len(loaded.all_events) + Len(plan.events)} :
                 /\ applied.ok
                 /\ eventsFile' = eventsFile \o AppendPayload(plan.events)
                 /\ stateFile' = Some(StateToJson([applied.state EXCEPT
                                                     !.applied_events = event_count]))
                 /\ snapshotsDir' =
                      IF /\ SnapshotEvery # 0
                         /\ event_count > 0
                         /\ event_count % SnapshotEvery = 0
                        THEN write_snapshot(snapshotsDir,
                               [taken_at |-> clock, event_count |-> event_count,
                                state |-> [applied.state EXCEPT
                                             !.applied_events = event_count]])
                        ELSE snapshotsDir
                 /\ st' = applied.state
  /\ used' = [used EXCEPT !.ops = @ + 1]
  /\ lastEvent' = [op |-> "commit", task_id |-> TaskA]
  /\ lastResult' = "ok"
  /\ UNCHANGED <<pc, lockFile, lockWritten, staleFile, raw, createdAt, clock, crashes,
                 lockLog, nWritten, taskLog, planned, mergeRun, runVars, specFiles,
                 opPc, op, batches, tailBase>>

\* A millisecond passes.
SnapTick ==
  /\ clock < MaxTicks
  /\ clock' = clock + 1
  /\ UNCHANGED <<offLock, pc, lockFile, lockWritten, staleFile, raw, createdAt, crashes,
                 lockLog, nWritten>>

\* The content of one snapshot file is lost.
SnapshotDamaged(file) ==
  /\ file \in snapshotsDir
  /\ file.state # Unparsable
  /\ Cardinality({s \in snapshotsDir : s.state = Unparsable}) < MaxUnparsable
  /\ snapshotsDir' = (snapshotsDir \ {file}) \cup {[file EXCEPT !.state = Unparsable]}
  /\ lastEvent' = [op |-> "damage", task_id |-> EmptyId]
  /\ UNCHANGED <<lockVars, st, lastResult, eventsFile, stateFile, specFiles, opPc, op,
                 batches, tailBase, used>>

\* git checks out the commit whose events.jsonl holds the first k events.
SnapCheckout(k) ==
  /\ opPc = "idle"
  /\ read_events(eventsFile).ok
  /\ k < Len(read_events(eventsFile).events)
  /\ eventsFile' = FileOf(SubSeq(read_events(eventsFile).events, 1, k))
  /\ opPc' = "checked-out"
  /\ lastEvent' = [op |-> "checkout", task_id |-> EmptyId]
  /\ UNCHANGED <<lockVars, st, lastResult, stateFile, snapshotsDir, specFiles, op,
                 batches, tailBase, used>>

SnapNext ==
  \/ SnapCommit
  \/ SnapTick
  \/ \E file \in snapshotsDir : SnapshotDamaged(file)
  \/ \E k \in 0..MaxCommits : SnapCheckout(k)

SnapSpec == SnapInit /\ [][SnapNext]_vars

\* Snapshot a was taken after snapshot b: at a later millisecond, or of a
\* longer log.
TakenAfter(a, b) ==
  a.taken_at > b.taken_at \/ (a.taken_at = b.taken_at /\ a.event_count > b.event_count)

\* C39 (snapshot retention): after a successful snapshot write at most
\* SNAPSHOT_RETAIN_COUNT snapshot files exist, the snapshot just written is
\* one of them, and every file the write removed was taken before every file
\* it kept.
SnapshotRetention ==
  [][(SnapCommit /\ (Len(LoadNow.all_events) + 1) % SnapshotEvery = 0) =>
       /\ Cardinality(snapshotsDir') <= SNAPSHOT_RETAIN_COUNT
       /\ \E s \in snapshotsDir' :
            s.event_count = Len(LoadNow.all_events) + 1 /\ s.taken_at = clock
       /\ \A gone \in snapshotsDir, kept \in snapshotsDir' :
            (\A s \in snapshotsDir' : snapshot_filename(s) # snapshot_filename(gone))
              => TakenAfter(kept, gone)]_vars

\* The files load passes over: the unparsable ones that sort after every
\* file that parses.
SkippedFiles ==
  {s \in snapshotsDir :
     /\ s.state = Unparsable
     /\ \A v \in snapshotsDir :
          v.state # Unparsable => NameLess(snapshot_filename(v), snapshot_filename(s))}

\* The names of the skipped files, newest first.
RECURSIVE NewestFirst(_)
NewestFirst(dir) ==
  IF dir = {} THEN <<>>
  ELSE <<snapshot_filename(Newest(dir))>> \o NewestFirst(dir \ {Newest(dir)})

\* C40 (snapshot fallback): with state.json absent and the newest snapshot
\* files unparsable, load passes over them and takes the newest file that
\* parses, or the empty state when none does; the state it returns is the
\* fold of the log from the empty state; the warning lists the names of the
\* skipped files newest first, the first three only, and counts the rest.
SnapshotFallback ==
  LET read == read_events(eventsFile)
      valid == {s \in snapshotsDir : s.state # Unparsable}
      loaded == load_latest_snapshot_with_warning(snapshotsDir)
      full == apply_events(create_empty_state, read.events)
      names == NewestFirst(SkippedFiles)
  IN (SkippedFiles # {} /\ read.ok /\ full.ok) =>
       /\ loaded.snapshot =
            IF valid = {} THEN None
            ELSE Some([Newest(valid) EXCEPT !.state = StateFromJson(@)])
       /\ LoadWithoutCache.ok
       /\ LoadWithoutCache.state =
            [full.state EXCEPT !.applied_events = Len(read.events)]
       /\ loaded.warning # None
       /\ loaded.warning[1].names = SubSeq(names, 1, Min2(3, Len(names)))
       /\ loaded.warning[1].more = Len(names) - Len(loaded.warning[1].names)
       /\ LoadWithoutCache.warning = combine_warnings(read.warning, loaded.warning)
====
